---- MODULE Spec2Model ----
(***************************************************************************)
(* Model of the equation-forms pipeline of boilercv:                       *)
(*   pipeline/boilercv_pipeline/correlations/dimensionless_bubble_diameter *)
(*       /equations.py       (replace, regex_replace, set_equation_forms,  *)
(*                            set_defaults, set_param_forms, LATEX_PARAMS) *)
(*   pipeline/boilercv_pipeline/equations/convert_latex_to_sympy.py        *)
(*                           (default, convert, update)                    *)
(*   src/boilercv/correlations/beta/__init__.py  (get_correlations)        *)
(*                                                                         *)
(* A Python str is a sequence of one-character strings, so that            *)
(* str.replace and re.sub are computed character by character.             *)
(***************************************************************************)
EXTENDS Integers, Sequences, FiniteSets, TLC

VARIABLES
    pc,          \* position of the modelled run
    eq,          \* raw forms of one equation entry (a value of the TOML table),
                 \* or the forms mapping handed to handle_form_whitespace
    forms,       \* EQUATIONS[name]: result of set_equation_forms(eq),
                 \* or the result of handle_form_whitespace(eq)
    again,       \* result of running the regex repair, or the whitespace
                 \* handling, on `forms` once more
    applied,     \* the patterns the regex repair has applied, in order
    pname,       \* name of one parameter of the LATEX_PARAMS table
    param,       \* the forms that parameter declares
    latex_param, \* LATEX_PARAMS[pname]
    equations,   \* the generated equations table the converter iterates over
    module,      \* the module file: for every equation, the sympy form it holds
    contents,    \* the converter's in-memory copy of the module text
    idx,         \* number of equations the converter's loop has handled
    calls,       \* the external tool's runs: the equation, the exit status
                 \* and the captured output
    symbolic,    \* what convert returned, by equation index
    error,       \* the RuntimeError raised by convert, if any
    writes,      \* number of times the module file was written
    solutions,   \* get_solutions(): the free symbols of every solved equation
    correlations, \* get_correlations(): the lambdified callables
    LATEX_PARAMS, \* the module's table of parameters: (name, forms) items
    SUBS,        \* the module's token-to-name table: (token, name) items
    signature,   \* parameter names of the callable under test
    kwds,        \* the keyword arguments the test passes: (name, value) items
    heap,        \* the mappings alive during one call, by object identity
    callee,      \* the transformation called
    arg,         \* identity of the mapping the caller passes
    passed,      \* the keys and values of that mapping when it was passed
    ret,         \* identity of the mapping the call returns
    raw,         \* the loaded TOML table: (name, raw forms) items
    EQUATIONS,   \* the EQUATIONS table as far as it is built
    other,       \* the table another load builds from its own TOML table
    info,        \* the validation context handed to a validator: None or a dict
    f_calls,     \* the context values the wrapped function was called with
    raised,      \* the error the validator has raised, if any
    source_ds,   \* the dataset in the video's source file: its variables
    roi_ds,      \* the dataset in the video's ROI file
    unc_source,  \* the uncompressed copy of the source: None while it does not exist
    ds_calls,    \* the calls of get_dataset so far: arguments and outcome
    viewer,      \* the function that opens the viewer
    roi_kind,    \* the kind of ROI edited: poly or line
    roi_file,    \* the text of the file at roi_path, None_file while there is none
    roi_item,         \* the points of the ROI item, in half pixels
    handlers,    \* the handlers connected to the window's signals and buttons
    views_set,   \* whether the image views have their images
    body,        \* the with-block of the caller: pending, done or raised
    loop,        \* the Qt event loop: idle, running or exited
    events,      \* the events handled by the loop, with what each did
    outcome,      \* what the caller of the function gets
    loaded,      \* what load_roi gives after the viewer is closed
    preview,     \* the preview argument of example_dataset
    save,        \* the save argument of example_dataset
    block,       \* what the body of the with-block does
    ds_open,     \* the dataset opened from the source file
    original,    \* ds[VIDEO] before the body
    todo,        \* the statements of the finally clause still to run
    shown,       \* the previews shown, in order
    dest_file,   \* the destination file, None while it is not written
    exit_log,    \* the exit actions performed, in order
    leaving,     \* how control leaves the with-block
    script,      \* the module run: the stage or export_all_tracks
    nb_modified, \* modified(find_collapse)
    times,       \* the experiment times the loop goes over
    thermal,     \* the run of the thermal-data notebook: running, done or failed
    submitted,   \* the times of the tasks submitted to the pool, in order
    tasks,       \* the state of each submitted task: pending, running, ok or failed
    cines,       \* the files in LOCAL_PATHS.cines
    large_sources, \* the .nc file in LOCAL_PATHS.large_sources of each stem, None while absent
    existing,    \* the stems whose .nc file was there before main
    remaining,   \* the sources the loop has yet to visit
    visits,      \* the sources visited, in order, with what was done
    logged       \* the messages of logger.exception, in order

formVars == <<eq, forms, again, applied>>
paramVars == <<pname, param, latex_param>>
convVars == <<equations, module, contents, idx, calls, symbolic, error, writes>>
lambVars == <<solutions, correlations>>
tableVars == <<LATEX_PARAMS, SUBS>>
testVars == <<signature, kwds>>
callVars == <<heap, callee, arg, passed, ret>>
loadVars == <<raw, EQUATIONS, other>>
valVars == <<info, f_calls, raised>>
dataVars == <<source_ds, roi_ds, unc_source, ds_calls>>
roiVars == <<viewer, roi_kind, roi_file, roi_item, handlers, views_set, body, loop, events, outcome, loaded>>
exVars == <<preview, save, block, ds_open, original, todo, shown, dest_file, exit_log, leaving>>
stageVars == <<script, nb_modified, times, thermal, submitted, tasks>>
cineVars == <<cines, large_sources, existing, remaining, visits, logged>>
vars == <<pc, eq, forms, again, applied, pname, param, latex_param, equations, module,
          contents, idx, calls, symbolic, error, writes, solutions, correlations,
          LATEX_PARAMS, SUBS, signature, kwds, heap, callee, arg, passed, ret,
          raw, EQUATIONS, other,
          info, f_calls, raised,
          source_ds, roi_ds, unc_source, ds_calls,
          viewer, roi_kind, roi_file, roi_item, handlers, views_set, body, loop, events, outcome, loaded,
          preview, save, block, ds_open, original, todo, shown, dest_file, exit_log, leaving,
          script, nb_modified, times, thermal, submitted, tasks,
          cines, large_sources, existing, remaining, visits, logged>>

----------------------------------------------------------------------------
(* Bounds *)

\* Longest sympy text drawn for an equation entry, counted in fragments.
MaxFrags == 4

\* Largest number of equations in the table the converter iterates over.
MaxEqs == 3

\* Most calls of get_dataset for one video.
MaxCalls == 3

\* Most events handled by the event loop before the one that ends it.
MaxEvents == 2

\* Most experiment times in the experiment's directory.
MaxTimes == 2

\* Most worker processes of the pool.
MaxWorkers == 2

\* Most files in the directory of CINEs.
MaxCines == 3

----------------------------------------------------------------------------
(* Characters and text helpers *)

BS == "\\"
\* The vertical tab (\x0b) has no TLA+ escape: it is named by its Python escape.
VT == "\\x0b"

\* string.whitespace == ' \t\n\r\x0b\x0c'
whitespace == <<" ", "\t", "\n", "\r", VT, "\f">>

RECURSIVE Flatten(_)
Flatten(ss) == IF ss = <<>> THEN <<>> ELSE Head(ss) \o Flatten(Tail(ss))

Range(s) == {s[k] : k \in 1..Len(s)}

StartsWith(s, p) == Len(s) >= Len(p) /\ SubSeq(s, 1, Len(p)) = p

Drop(s, n) == SubSeq(s, n + 1, Len(s))

\* Python str.replace(find, repl): leftmost, non-overlapping occurrences.
\* An empty `find` matches before every character and at the end.
RECURSIVE str_replace(_, _, _)
str_replace(s, find, repl) ==
    IF find = <<>>
    THEN IF s = <<>> THEN repl
         ELSE repl \o <<Head(s)>> \o str_replace(Tail(s), find, repl)
    ELSE IF Len(s) < Len(find) THEN s
    ELSE IF StartsWith(s, find)
         THEN repl \o str_replace(Drop(s, Len(find)), find, repl)
         ELSE <<Head(s)>> \o str_replace(Tail(s), find, repl)

(* The regular expressions of set_equation_forms have two shapes: a literal *)
(* text, or a literal text followed by `([^)]+)\)`.  A pattern is the      *)
(* record [lit, group]; a replacement template is [lit, g1], where g1      *)
(* says that the template ends with `\g<1>`.                               *)

\* Index of the first ")" of s at or after position k, 0 when there is none.
RECURSIVE FirstClose(_, _)
FirstClose(s, k) ==
    IF k > Len(s) THEN 0
    ELSE IF s[k] = ")" THEN k
    ELSE FirstClose(s, k + 1)

\* Length of the match of `find` at the start of s, 0 when it does not match.
\* `[^)]+` is greedy and cannot cross a ")": it takes everything up to the
\* first ")" and needs at least one character.
MatchLen(find, s) ==
    IF ~StartsWith(s, find.lit) THEN 0
    ELSE IF ~find.group THEN Len(find.lit)
    ELSE LET j == FirstClose(s, Len(find.lit) + 1)
         IN  IF j > Len(find.lit) + 1 THEN j ELSE 0

\* Expansion of the replacement template for a match of length m at the
\* start of s.
Expand(find, repl, s, m) ==
    IF repl.g1 THEN repl.lit \o SubSeq(s, Len(find.lit) + 1, m - 1)
    ELSE repl.lit

\* re.sub(find, repl, s): leftmost, non-overlapping matches, left to right.
RECURSIVE sub(_, _, _)
sub(find, repl, s) ==
    IF s = <<>> THEN <<>>
    ELSE LET m == MatchLen(find, s)
         IN  IF m > 0
             THEN Expand(find, repl, s, m) \o sub(find, repl, Drop(s, m))
             ELSE <<Head(s)>> \o sub(find, repl, Tail(s))

----------------------------------------------------------------------------
(* Forms mappings *)

kinds == <<"latex", "sympy", "python">>

\* A lookup of a missing key raises KeyError; the raised error is carried as
\* a mapping whose only key is "error".
KeyError == [error |-> "KeyError"]

Failed(i) == "error" \in DOMAIN i

Repl(src, dst, find, repl) == [src |-> src, dst |-> dst, find |-> find, repl |-> repl]

\* Whitespace deleted instead of replaced by a space.
WHITESPACE_REPLS_Deleting ==
    [n \in 1..(Len(whitespace) * Len(kinds)) |->
        LET w == whitespace[((n - 1) \div Len(kinds)) + 1]
            k == kinds[((n - 1) % Len(kinds)) + 1]
        IN  Repl(k, k, <<w>>, <<>>)]

\* The last whitespace character left out.
WHITESPACE_REPLS_OffByOne ==
    [n \in 1..((Len(whitespace) - 1) * Len(kinds)) |->
        LET w == whitespace[((n - 1) \div Len(kinds)) + 1]
            k == kinds[((n - 1) % Len(kinds)) + 1]
        IN  Repl(k, k, <<w>>, <<" ">>)]

\* for find in whitespace for kind in kinds
WHITESPACE_REPLS ==
    [n \in 1..(Len(whitespace) * Len(kinds)) |->
        LET w == whitespace[((n - 1) \div Len(kinds)) + 1]
            k == kinds[((n - 1) % Len(kinds)) + 1]
        IN  Repl(k, k, <<w>>, <<" ">>)]

\* i[r.dst] = f(i[r.src]) on a copy of i
\* The result stored under the rule's source kind.
Assign_Src(i, r, text) ==
    [k \in DOMAIN i \cup {r.src} |-> IF k = r.src THEN text ELSE i[k]]

Assign(i, r, text) ==
    [k \in DOMAIN i \cup {r.dst} |-> IF k = r.dst THEN text ELSE i[k]]

RECURSIVE replace(_, _)
replace(i, repls) ==
    IF repls = <<>> \/ Failed(i) THEN i
    ELSE LET r == Head(repls)
         IN  IF r.src \notin DOMAIN i THEN KeyError
             ELSE replace(Assign(i, r, str_replace(i[r.src], r.find, r.repl)),
                          Tail(repls))

RECURSIVE regex_replace(_, _)
regex_replace(i, repls) ==
    IF repls = <<>> \/ Failed(i) THEN i
    ELSE LET r == Head(repls)
         IN  IF r.src \notin DOMAIN i THEN KeyError
             ELSE regex_replace(Assign(i, r, sub(r.find, r.repl, i[r.src])),
                                Tail(repls))

\* The patterns regex_replace applies, in the order it applies them:
\* `for r in repls`.
Patterns(repls) == [n \in 1..Len(repls) |-> repls[n].find]

handle_form_whitespace(i) == replace(i, WHITESPACE_REPLS)

\* Forms.make: a forms mapping with every kind present, "" where undeclared.
Forms_make(i) == [k \in Range(kinds) |-> IF k \in DOMAIN i THEN i[k] ELSE <<>>]

\* Registered parameter symbols.
Params == << <<"F","o","_","0">>, <<"J","a">>, <<"R","e","_","b","0">>,
             <<"P","r">>, <<"b","e","t","a">> >>

\* The symbol table the repair iterates over (symbolic.LOCALS), in its order.
LOCALS == Params

\* {"{o}": "0", "{bo}": "b0"}
\* The braces replaced in the sympy form and the result stored as the latex form.
BRACE_REPLS_ToLatex ==
    << Repl("sympy", "latex", <<"{","o","}">>, <<"0">>),
       Repl("sympy", "latex", <<"{","b","o","}">>, <<"b","0">>) >>

BRACE_REPLS ==
    << Repl("sympy", "sympy", <<"{","o","}">>, <<"0">>),
       Repl("sympy", "sympy", <<"{","b","o","}">>, <<"b","0">>) >>

\* The replacement template without its `\g<1>`.
SplitParen_NoGroup(sym) ==
    Repl("sympy", "sympy",
         [lit |-> <<Head(sym), "*", "(">> \o Tail(sym), group |-> TRUE],
         [lit |-> sym, g1 |-> FALSE])

\* Symbol split by `(` after first character.
SplitParen(sym) ==
    Repl("sympy", "sympy",
         [lit |-> <<Head(sym), "*", "(">> \o Tail(sym), group |-> TRUE],
         [lit |-> sym, g1 |-> TRUE])

\* Symbol split by a `*` after first character.
SplitStar(sym) ==
    Repl("sympy", "sympy",
         [lit |-> <<Head(sym), "*">> \o Tail(sym), group |-> FALSE],
         [lit |-> sym, g1 |-> FALSE])

\* The pattern without its `\(`.
MissingStar_NoParen(sym) ==
    Repl("sympy", "sympy",
         [lit |-> sym, group |-> FALSE],
         [lit |-> sym \o <<"*", "(">>, g1 |-> FALSE])

\* The replacement without its `*`.
MissingStar_NoStar(sym) ==
    Repl("sympy", "sympy",
         [lit |-> sym \o <<"(">>, group |-> FALSE],
         [lit |-> sym \o <<"(">>, g1 |-> FALSE])

\* Symbol missing `*` resulting in failed attempt to call it.
MissingStar(sym) ==
    Repl("sympy", "sympy",
         [lit |-> sym \o <<"(">>, group |-> FALSE],
         [lit |-> sym \o <<"*", "(">>, g1 |-> FALSE])

\* Call detection ahead of the two joining rules.
SymbolRepls_CallFirst(sym) == <<MissingStar(sym), SplitParen(sym), SplitStar(sym)>>

\* for find, repl in {...}.items(): the three rules of one symbol
SymbolRepls(sym) == <<SplitParen(sym), SplitStar(sym), MissingStar(sym)>>

\* The symbols taken last to first.
REPAIR_REPLS_Reversed(syms) ==
    Flatten([n \in 1..Len(syms) |-> SymbolRepls(syms[Len(syms) + 1 - n])])

\* for sym in LOCALS for find, repl in {...}.items()
REPAIR_REPLS(syms) == Flatten([n \in 1..Len(syms) |-> SymbolRepls(syms[n])])

\* i.get("sympy") is falsy
NoSympy(i) == "sympy" \notin DOMAIN i \/ i["sympy"] = <<>>

set_equation_forms(i) ==
    LET j == replace(handle_form_whitespace(Forms_make(i)), BRACE_REPLS)
    IN  IF Failed(j) \/ NoSympy(j) THEN j
        ELSE regex_replace(j, REPAIR_REPLS(LOCALS))

\* The patterns set_equation_forms(i) hands to regex_replace: none when it
\* returns before the repair.
Repaired(i) ==
    LET j == replace(handle_form_whitespace(Forms_make(i)), BRACE_REPLS)
    IN  IF Failed(j) \/ NoSympy(j) THEN <<>>
        ELSE Patterns(REPAIR_REPLS(LOCALS))

----------------------------------------------------------------------------
(* Equation entries drawn for the check *)

\* Pieces the drawn sympy texts are made of.
Frags == { <<"J","*","(","a">>, <<"J","*">>, <<"a">>, <<"F","o","_","0">>,
           <<"(">>, <<")">> }

FragSeqs == UNION {[1..n -> Frags] : n \in 0..MaxFrags}

\* Texts of the scenarios of the specification.
ReSplit == <<"R","e","*","(","b","0","*","*","0",".","5",")">>
RSplit == <<"R","*","(","e","_","b","0","*","*","0",".","5",")">>
ReRepaired == <<"R","e","_","b","0","*","*","0",".","5">>
FoCall == <<"F","o","_","0","(","2",")">>
FoBrace == <<"F","o","_","{","o","}","\t","+"," ","R","e","_","{","b","o","}">>

JaPlus == <<"J","a"," ","+"," ","x">>

ScenarioTexts == {ReSplit, RSplit, FoCall, FoBrace, JaPlus}

SympyTexts == {Flatten(fs) : fs \in FragSeqs} \cup ScenarioTexts

LatexTexts == { <<>>, <<BS,"J","a","\t","x">> }

PythonTexts == { <<>>, <<"x","\r","\n"," ","y">> }

\* An entry declares zero or more of the three kinds.
Entry(declared, l, s, p) ==
    [k \in declared |-> IF k = "latex" THEN l ELSE IF k = "sympy" THEN s ELSE p]

Entries ==
    { Entry(Range(kinds), <<BS,"J","a">>, s, <<>>) : s \in SympyTexts }
    \cup
    { Entry(d, l, s, p) :
        d \in SUBSET Range(kinds), l \in LatexTexts,
        s \in {<<>>, FoCall}, p \in PythonTexts }

NoForms == [none |-> <<>>]

----------------------------------------------------------------------------
(* Parameters *)

\* The keys of `keys` left out.
set_defaults_NoKeys(i, default, keys) == i

\* {key: i.get(key, default) for key in [*i.keys(), *(keys or [])]}
set_defaults(i, default, keys) ==
    [k \in DOMAIN i \cup Range(keys) |-> IF k \in DOMAIN i THEN i[k] ELSE default]

\* A declared sympy form replacing the latex form even when one is declared.
set_param_forms_SympyWins(i, name) ==
    LET d == set_defaults(i, <<>>, kinds)
    IN  IF ~({"sympy", "latex"} \subseteq DOMAIN d) THEN KeyError
        ELSE LET l == IF d["sympy"] # <<>> THEN d["sympy"] ELSE d["latex"]
             IN  [d EXCEPT !["latex"] = IF l = <<>> THEN <<BS>> \o name ELSE l]

\* i["sympy"] and i["latex"] raise KeyError on a mapping without these keys.
set_param_forms(i, name) ==
    LET d == set_defaults(i, <<>>, kinds)
    IN  IF ~({"sympy", "latex"} \subseteq DOMAIN d) THEN KeyError
        ELSE LET l == IF d["sympy"] # <<>> /\ d["latex"] = <<>>
                      THEN d["sympy"] ELSE d["latex"]
             IN  [d EXCEPT !["latex"] = IF l = <<>> THEN <<BS>> \o name ELSE l]

\* {r"_\b0": "_bo", r"_\o": "_0", "\\": ""}, each from latex to sympy
PARAM_REPLS ==
    << Repl("latex", "sympy", <<"_",BS,"b","0">>, <<"_","b","o">>),
       Repl("latex", "sympy", <<"_",BS,"o">>, <<"_","0">>),
       Repl("latex", "sympy", <<BS>>, <<>>) >>

\* One value of the LATEX_PARAMS comprehension.
LATEX_PARAM(name, p) ==
    replace(set_param_forms(set_defaults(p, <<>>, kinds), name), PARAM_REPLS)

bubble_initial_reynolds ==
    <<"b","u","b","b","l","e","_","i","n","i","t","i","a","l","_",
      "r","e","y","n","o","l","d","s">>
bubble_jakob == <<"b","u","b","b","l","e","_","j","a","k","o","b">>
bubble_fourier == <<"b","u","b","b","l","e","_","f","o","u","r","i","e","r">>
beta == <<"b","e","t","a">>
pi == <<"p","i">>

FoLatex == <<BS,"F","o","_",BS,"o">>
ReLatex == <<BS,"R","e","_",BS,"b","o">>

\* The parameters the module declares.
DECLARED_PARAMS ==
    << <<bubble_initial_reynolds, [latex |-> ReLatex]>>,
       <<bubble_jakob, [latex |-> <<BS,"J","a">>]>>,
       <<bubble_fourier, [latex |-> FoLatex]>>,
       <<beta, [latex |-> <<BS>> \o beta]>>,
       <<pi, [latex |-> <<BS>> \o pi]>> >>

\* LATEX_PARAMS = {name: Forms(param).pipe(...) for name, param in {...}.items()}
LATEX_PARAMS_items ==
    [n \in 1..Len(DECLARED_PARAMS) |->
        <<DECLARED_PARAMS[n][1],
          LATEX_PARAM(DECLARED_PARAMS[n][1], DECLARED_PARAMS[n][2])>>]

\* d[k] = v on a dict kept as its items in insertion order
SetItem(d, k, v) ==
    LET S == {n \in DOMAIN d : d[n][1] = k}
    IN  IF S = {} THEN Append(d, <<k, v>>)
        ELSE [n \in DOMAIN d |-> IF n \in S THEN <<k, v>> ELSE d[n]]

\* d[k]
GetItem(d, k) ==
    LET S == {n \in DOMAIN d : d[n][1] = k}
    IN  IF S = {} THEN KeyError ELSE d[CHOOSE n \in S : TRUE][2]

\* SUBS = {arg["sympy"]: name for name, arg in LATEX_PARAMS.items()}
RECURSIVE SUBS_items(_, _)
SUBS_items(d, items) ==
    IF items = <<>> THEN d
    ELSE SUBS_items(SetItem(d, Head(items)[2]["sympy"], Head(items)[1]),
                    Tail(items))

----------------------------------------------------------------------------
(* Parameter declarations drawn for the check *)

ParamNames == {bubble_fourier, beta, pi}

ParamLatex == { <<>>, FoLatex, <<BS,"R","e","_",BS,"b","0">>, <<BS,"J","a">> }

ParamSympy == { <<>>, <<"F","o","_","0">>, <<"X">> }

ParamDecls ==
    { Entry(d, l, s, <<>>) :
        d \in SUBSET Range(kinds), l \in ParamLatex, s \in ParamSympy }

----------------------------------------------------------------------------
(* The LaTeX-to-SymPy converter *)

IsSpace(c) == c \in Range(whitespace)

\* str.strip()
RECURSIVE lstrip(_)
lstrip(s) == IF s # <<>> /\ IsSpace(Head(s)) THEN lstrip(Tail(s)) ELSE s

RECURSIVE rstrip(_)
rstrip(s) ==
    IF s # <<>> /\ IsSpace(s[Len(s)]) THEN rstrip(SubSeq(s, 1, Len(s) - 1)) ELSE s

strip(s) == rstrip(lstrip(s))

\* The replacement table convert is called with.
SYMPY_REPL == << << <<"{","o","}">>, <<"0">> >>, << <<"{","b","o","}">>, <<"b","0">> >> >>

\* for old, new in repl.items(): eq = eq.replace(old, new)
RECURSIVE ReplaceItems(_, _)
ReplaceItems(text, repl) ==
    IF repl = <<>> THEN text
    ELSE ReplaceItems(str_replace(text, Head(repl)[1], Head(repl)[2]), Tail(repl))

\* What one run of the external tool gives back.
ToolRuns ==
    { [returncode |-> 0, stdout |-> <<"J","a","\n">>, stderr |-> <<>>],
      [returncode |-> 0, stdout |-> <<" ","F","o","_","{","o","}","\n">>, stderr |-> <<>>],
      [returncode |-> 1, stdout |-> <<"F","o">>, stderr |-> <<"b","a","d">>] }

None == [none |-> <<>>]

\* The exit status of the tool ignored.
convert_NoRaise(result, repl) == [text |-> ReplaceItems(strip(result.stdout), repl)]

\* The output of the tool taken as it comes.
convert_NoStrip(result, repl) ==
    IF result.returncode # 0 THEN [error |-> result.stderr]
    ELSE [text |-> ReplaceItems(result.stdout, repl)]

\* convert(latex, repl), given the result of the subprocess run: the raised
\* RuntimeError, or the returned text.
convert(result, repl) ==
    IF result.returncode # 0 THEN [error |-> result.stderr]
    ELSE [text |-> ReplaceItems(strip(result.stdout), repl)]

\* update(contents, _name, _eq)
update(text, name, symb) == text

\* The second `continue` left out.
Skipped_LatexOnly(e) == e.latex = <<>>

\* The equation at the loop's position is skipped by one of the `continue`s.
Skipped(e) == e.latex = <<>> \/ e.sympy # <<>>

----------------------------------------------------------------------------
(* Lambdified correlations *)

\* The registered symbols get_correlations filters the arguments by.
SYMBOLS ==
    [Nu_c |-> "nusselt", Fo_0 |-> "bubble_fourier", Ja |-> "bubble_jakob",
     Re_b0 |-> "bubble_initial_reynolds", Pr |-> "liquid_prandtl",
     beta |-> "dimensionless_bubble_diameter", alpha |-> "thermal_diffusivity",
     pi |-> "pi"]

\* Symbols a solved equation is drawn from.
FreeSymbols == {"Fo_0", "Ja", "Xyz"}

Equation == {"florschuetz_chao_1965", "isenberg_sideman_1970"}

Perms(S) == {f \in [1..Cardinality(S) -> S] : Range(f) = S}

\* Every free symbol made an argument.
LambdifyArgs_NoFilter(free) == free

\* args=[s for s in soln.free_symbols if s.name in SYMBOLS]
LambdifyArgs(free) == {s \in free : s \in DOMAIN SYMBOLS}

----------------------------------------------------------------------------
(* Initial states: one equation entry to load, one parameter to build, one *)
(* run of the converter, or one materialization of the solved equations    *)

FormsIdle == eq = NoForms /\ forms = NoForms /\ again = NoForms /\ applied = <<>>

ParamsIdle == pname = <<>> /\ param = NoForms /\ latex_param = NoForms

ConvIdle ==
    /\ equations = <<>> /\ module = <<>> /\ contents = <<>> /\ idx = 0
    /\ calls = <<>> /\ symbolic = <<>> /\ error = None /\ writes = 0

LambIdle == solutions = None /\ correlations = None

TableIdle == LATEX_PARAMS = <<>> /\ SUBS = <<>>

TestIdle == signature = {} /\ kwds = <<>>

CallIdle == heap = <<>> /\ callee = "" /\ arg = 0 /\ passed = NoForms /\ ret = 0

LoadIdle == raw = <<>> /\ EQUATIONS = <<>> /\ other = <<>>

ValIdle == info = None /\ f_calls = <<>> /\ raised = None

DataIdle == source_ds = None /\ roi_ds = None /\ unc_source = None /\ ds_calls = <<>>

\* A path at which no file exists: roi_path.exists() is false.
None_file == <<"no file">>

RoiIdle == viewer = "" /\ roi_kind = "" /\ roi_file = None_file /\ roi_item = <<>>
    /\ handlers = {} /\ views_set = FALSE /\ body = "" /\ loop = ""
    /\ events = <<>> /\ outcome = None /\ loaded = None

ExampleIdle == preview = FALSE /\ save = FALSE /\ block = "" /\ ds_open = None
    /\ original = None /\ todo = <<>> /\ shown = <<>> /\ dest_file = None
    /\ exit_log = <<>> /\ leaving = ""

StageIdle == script = "" /\ nb_modified = FALSE /\ times = <<>> /\ thermal = ""
    /\ submitted = <<>> /\ tasks = <<>>

CineIdle == cines = {} /\ large_sources = <<>> /\ existing = {} /\ remaining = <<>>
    /\ visits = <<>> /\ logged = <<>>

InitForms ==
    /\ pc = "load"
    /\ eq \in Entries
    /\ forms = NoForms
    /\ again = NoForms
    /\ applied = <<>>
    /\ ParamsIdle /\ ConvIdle /\ LambIdle
    /\ TableIdle /\ TestIdle /\ CallIdle /\ LoadIdle
    /\ ValIdle
    /\ DataIdle
    /\ RoiIdle
    /\ ExampleIdle
    /\ StageIdle
    /\ CineIdle

\* Texts with every whitespace character.
WsTexts == { <<>>, <<"a","\t","\n","b">>, <<VT,"\f"," ","\r">>, <<"x"," "," ","y">> }

\* One forms mapping with all three kinds, to be normalised.
InitNormalize ==
    /\ pc = "normalize"
    /\ eq \in [Range(kinds) -> WsTexts]
    /\ forms = NoForms
    /\ again = NoForms
    /\ applied = <<>>
    /\ ParamsIdle /\ ConvIdle /\ LambIdle
    /\ TableIdle /\ TestIdle /\ CallIdle /\ LoadIdle
    /\ ValIdle
    /\ DataIdle
    /\ RoiIdle
    /\ ExampleIdle
    /\ StageIdle
    /\ CineIdle

InitParams ==
    /\ pc = "param"
    /\ \/ \E n \in 1..Len(DECLARED_PARAMS) :
             pname = DECLARED_PARAMS[n][1] /\ param = DECLARED_PARAMS[n][2]
       \/ pname \in ParamNames /\ param \in ParamDecls
    /\ latex_param = NoForms
    /\ FormsIdle /\ ConvIdle /\ LambIdle
    /\ TableIdle /\ TestIdle /\ CallIdle /\ LoadIdle
    /\ ValIdle
    /\ DataIdle
    /\ RoiIdle
    /\ ExampleIdle
    /\ StageIdle
    /\ CineIdle

EqLatex == { <<>>, <<BS,"J","a">> }

EqSympy == { <<>>, <<"J","a">> }

\* The module holds the sympy forms the equations table was generated with.
InitConvert ==
    /\ pc = "start"
    /\ \E n \in 0..MaxEqs :
          equations \in [1..n -> [latex : EqLatex, sympy : EqSympy]]
    /\ module = [n \in 1..Len(equations) |-> equations[n].sympy]
    /\ contents = <<>>
    /\ idx = 0
    /\ calls = <<>>
    /\ symbolic = [n \in 1..Len(equations) |-> None]
    /\ error = None
    /\ writes = 0
    /\ FormsIdle /\ ParamsIdle /\ LambIdle
    /\ TableIdle /\ TestIdle /\ CallIdle /\ LoadIdle
    /\ ValIdle
    /\ DataIdle
    /\ RoiIdle
    /\ ExampleIdle
    /\ StageIdle
    /\ CineIdle

\* A mapping put on the heap as a new object.
New(h, m) == [heap |-> Append(h, m), ref |-> Len(h) + 1]

\* The mapping itself in place of a copy of it.
dict_Alias(h, id) == [heap |-> h, ref |-> id]

\* dict(i): a new object with the keys and values of i
dict(h, id) == New(h, h[id])

\* The object `id` after the assignments a loop or a statement makes to it.
Store(h, id, m) == [n \in DOMAIN h |-> IF n = id THEN m ELSE h[n]]

\* replace(i, repls): i = dict(i), then i[r.dst] = ... for every rule
replace_call(h, id, repls) ==
    LET c == dict(h, id)
    IN  [heap |-> Store(c.heap, c.ref, replace(c.heap[c.ref], repls)), ref |-> c.ref]

\* regex_replace(i, repls): i = dict(i), then i[r.dst] = ... for every rule
regex_replace_call(h, id, repls) ==
    LET c == dict(h, id)
    IN  [heap |-> Store(c.heap, c.ref, regex_replace(c.heap[c.ref], repls)),
         ref |-> c.ref]

\* handle_form_whitespace(i): return replace(i, WHITESPACE_REPLS)
handle_form_whitespace_call(h, id) == replace_call(h, id, WHITESPACE_REPLS)

\* set_defaults(i, default, keys): the dict its comprehension builds
set_defaults_call(h, id, default, keys) == New(h, set_defaults(h[id], default, keys))

\* set_param_forms(i, name): i = dict(set_defaults(i, ...)), then the two
\* assignments to i["latex"]
set_param_forms_call(h, id, name) ==
    LET d == set_defaults_call(h, id, <<>>, kinds)
        c == dict(d.heap, d.ref)
    IN  [heap |-> Store(c.heap, c.ref, set_param_forms(h[id], name)), ref |-> c.ref]

\* The five transformations, with the arguments they are called with besides
\* the mapping.
Callees ==
    { [fn |-> "replace", repls |-> r] : r \in {PARAM_REPLS, BRACE_REPLS} }
    \cup { [fn |-> "regex_replace", repls |-> REPAIR_REPLS(LOCALS)] }
    \cup { [fn |-> "handle_form_whitespace"] }
    \cup { [fn |-> "set_defaults", default |-> <<>>, keys |-> kinds] }
    \cup { [fn |-> "set_param_forms", name |-> n] : n \in ParamNames }

\* Mappings a caller holds.
CallTexts == { <<>>, FoLatex, FoBrace, FoCall }

CallMappings(c) ==
    IF c.fn \in {"set_defaults", "set_param_forms"}
    THEN UNION { [d -> {<<>>, FoLatex}] : d \in SUBSET Range(kinds) }
    ELSE [Range(kinds) -> CallTexts]

Invoke(c, h, id) ==
    CASE c.fn = "replace" -> replace_call(h, id, c.repls)
      [] c.fn = "regex_replace" -> regex_replace_call(h, id, c.repls)
      [] c.fn = "handle_form_whitespace" -> handle_form_whitespace_call(h, id)
      [] c.fn = "set_defaults" -> set_defaults_call(h, id, c.default, c.keys)
      [] c.fn = "set_param_forms" -> set_param_forms_call(h, id, c.name)

\* One object taken for the forms of every correlation.
Load_Shared(done, name, e) ==
    LET f == set_equation_forms(e)
    IN  Append([n \in DOMAIN done |-> <<done[n][1], f>>], <<name, f>>)

\* The table under construction after the item of one more correlation:
\* name: Forms(eq).pipe(set_equation_forms)
Load(done, name, e) == SetItem(done, name, set_equation_forms(e))

\* Raw forms of the correlations of a TOML table.
RawForms ==
    { Entry(Range(kinds), <<BS,"J","a">>, s, <<>>) :
        s \in {<<>>, FoCall, <<"J","*","a","(">>} }

Names(items) == {items[n][1] : n \in DOMAIN items}

\* Correlations with their raw forms, none loaded yet: one load builds its
\* table from all of them, another from any of them, each in any order.
InitLoad ==
    /\ pc = "loading"
    /\ \E f \in [Equation -> RawForms] :
          \E order \in Perms(Equation) :
              raw = [n \in DOMAIN order |-> <<order[n], f[order[n]]>>]
    /\ EQUATIONS = <<>>
    /\ other = <<>>
    /\ FormsIdle /\ ParamsIdle /\ ConvIdle /\ LambIdle
    /\ TableIdle /\ TestIdle /\ CallIdle
    /\ ValIdle
    /\ DataIdle
    /\ RoiIdle
    /\ ExampleIdle
    /\ StageIdle
    /\ CineIdle

\* A caller about to pass its mapping to one of the transformations.
InitCall ==
    /\ pc = "call"
    /\ callee \in Callees
    /\ passed \in CallMappings(callee)
    /\ heap = <<passed>>
    /\ arg = 1
    /\ ret = 0
    /\ FormsIdle /\ ParamsIdle /\ ConvIdle /\ LambIdle
    /\ TableIdle /\ TestIdle /\ LoadIdle
    /\ ValIdle
    /\ DataIdle
    /\ RoiIdle
    /\ ExampleIdle
    /\ StageIdle
    /\ CineIdle

\* The canonical keyword vectors, as (keyword, value) items.
SYMBOL_EXPECTATIONS ==
    << <<"Nu_c", "1.0">>, <<"Fo_0", "linspace">>, <<"Ja", "1.0">>,
       <<"Re_b0", "100.0">>, <<"Pr", "1.0">>, <<"beta", "0.5">>,
       <<"alpha", "1.0">>, <<"pi", "pi">> >>

KWDS ==
    << <<"dimensionless_bubble_diameter", "1.0">>,
       <<"bubble_initial_reynolds", "100.0">>, <<"bubble_jakob", "1.0">>,
       <<"bubble_fourier", "linspace">>, <<"liquid_prandtl", "1.0">> >>

\* A dict built from items, a later item replacing an earlier one of its key.
RECURSIVE DictOf(_, _)
DictOf(d, items) ==
    IF items = <<>> THEN d
    ELSE DictOf(SetItem(d, Head(items)[1], Head(items)[2]), Tail(items))

Accepted(item, params) == item[1] \in params

\* Every entry of the vector passed.
Keywords_Unfiltered(vector, params) == DictOf(<<>>, vector)

\* {kwd: value for kwd, value in vector.items() if kwd in parameters}
Keywords(vector, params) ==
    DictOf(<<>>, SelectSeq(vector, LAMBDA item : Accepted(item, params)))

\* {SYMBOLS[kwd]: value for kwd, value in vector.items()
\*  if SYMBOLS[kwd] in parameters}
\* SYMBOLS has every keyword of the vector.
KeywordsMapped(vector, params) ==
    Keywords([n \in DOMAIN vector |-> <<SYMBOLS[vector[n][1]], vector[n][2]>>],
             params)

\* Parameter names of the python correlations, and one no vector has.
PythonParams ==
    {"bubble_fourier", "bubble_jakob", "bubble_initial_reynolds",
     "liquid_prandtl", "extra"}

\* Argument names of the lambdified correlations.
SympyParams == {"Fo_0", "Ja", "Re_b0", "Pr"}

\* One callable under one of the tests.
InitTest ==
    /\ \/ pc \in {"test_python", "test_equations"} /\ signature \in SUBSET PythonParams
       \/ pc = "test_sympy" /\ signature \in SUBSET SympyParams
    /\ kwds = <<>>
    /\ FormsIdle /\ ParamsIdle /\ ConvIdle /\ LambIdle
    /\ TableIdle /\ CallIdle /\ LoadIdle
    /\ ValIdle
    /\ DataIdle
    /\ RoiIdle
    /\ ExampleIdle
    /\ StageIdle
    /\ CineIdle

InitLambdify ==
    /\ pc = "solved"
    /\ solutions \in [Equation -> SUBSET FreeSymbols]
    /\ correlations = None
    /\ FormsIdle /\ ParamsIdle /\ ConvIdle
    /\ TableIdle /\ TestIdle /\ CallIdle /\ LoadIdle
    /\ ValIdle
    /\ DataIdle
    /\ RoiIdle
    /\ ExampleIdle
    /\ StageIdle
    /\ CineIdle

\* The module before its tables are built.
InitTables ==
    /\ pc = "import"
    /\ TableIdle
    /\ FormsIdle /\ ParamsIdle /\ ConvIdle /\ LambIdle
    /\ TestIdle /\ CallIdle /\ LoadIdle
    /\ ValIdle
    /\ DataIdle
    /\ RoiIdle
    /\ ExampleIdle
    /\ StageIdle
    /\ CineIdle

\* The type a validator is built for, and the key its values are stored under.
CONTEXT_VALUE_TYPE == "Symbols"

name_to_snake(typ) == IF typ = "Symbols" THEN "symbols" ELSE "other"

\* isinstance(v, typ): v is of the type or of a subclass of it
isinstance(v, typ) == v.type = typ \/ v.type = "Sub" \o typ

\* Values a context holds: instances of the type, of a subclass of it and of
\* another type, truthy or falsy, and None.
ContextValues ==
    [type : {"Symbols", "SubSymbols", "Other"}, truthy : BOOLEAN]
    \cup {[type |-> "NoneType", truthy |-> FALSE]}

ValueError == [error |-> "ValueError"]

\* The type of the value under the key not looked at.
validate_Untyped(context) ==
    LET key == name_to_snake(CONTEXT_VALUE_TYPE)
    IN  IF context = None \/ DOMAIN context = {} THEN ValueError
        ELSE IF key \notin DOMAIN context \/ ~context[key].truthy THEN ValueError
        ELSE [called |-> context[key]]

\* validate(v, info) of validator(context_value_type)(f), given info.context:
\* the ValueError raised, or the context value f is called with.
validate(context) ==
    LET key == name_to_snake(CONTEXT_VALUE_TYPE)
    IN  IF context = None \/ DOMAIN context = {} THEN ValueError
        ELSE IF key \notin DOMAIN context \/ ~context[key].truthy THEN ValueError
        ELSE IF ~isinstance(context[key], CONTEXT_VALUE_TYPE) THEN ValueError
        ELSE [called |-> context[key]]

\* A validator about to be called with some validation context.
InitValidate ==
    /\ pc = "validate"
    /\ info \in {None} \cup UNION { [d -> ContextValues] : d \in SUBSET {"symbols", "other"} }
    /\ f_calls = <<>>
    /\ raised = None
    /\ FormsIdle /\ ParamsIdle /\ ConvIdle /\ LambIdle
    /\ TableIdle /\ TestIdle /\ CallIdle /\ LoadIdle
    /\ DataIdle
    /\ RoiIdle
    /\ ExampleIdle
    /\ StageIdle
    /\ CineIdle

ALL_FRAMES == "slice(None)"

\* Arguments get_dataset is called with besides the video.
DatasetArgs == [num_frames : {0, 2}, frame : {ALL_FRAMES, "slice(0, 1)"}]

\* The frames selected: the `if num_frames` block.
FrameOf(a) ==
    IF a.num_frames = 0 THEN a.frame
    ELSE IF a.frame = ALL_FRAMES THEN "slice(None, 1)" ELSE "ValueError"

\* source = unc_source if unc_source.exists() else ... sources / f"{video}.nc"
SourceOf(unc, src) == IF unc # None THEN unc ELSE src

\* xr.Dataset({VIDEO: ds[VIDEO]})
UncompressedCopy(ds) == [k \in {"VIDEO"} |-> ds[k]]

\* The dataset get_dataset returns from the opened source and ROI datasets;
\* ds[HEADER] raises KeyError on a dataset without that variable.
get_dataset(ds, roi, frame) ==
    IF ~({"VIDEO", "HEADER"} \subseteq DOMAIN ds) THEN KeyError
    ELSE [VIDEO |-> <<"unpack", ds["VIDEO"], frame>>,
          ROI |-> roi["ROI"],
          HEADER |-> ds["HEADER"]]

\* One video with its source and ROI files, and no uncompressed copy yet.
InitDataset ==
    /\ pc = "dataset"
    /\ source_ds \in [VIDEO : {"packed1", "packed2"}, HEADER : {"header1", "header2"}]
    /\ roi_ds \in [ROI : {"roi1"}]
    /\ unc_source = None
    /\ ds_calls = <<>>
    /\ FormsIdle /\ ParamsIdle /\ ConvIdle /\ LambIdle
    /\ TableIdle /\ TestIdle /\ CallIdle /\ LoadIdle
    /\ ValIdle
    /\ RoiIdle
    /\ ExampleIdle
    /\ StageIdle
    /\ CineIdle

----------------------------------------------------------------------------
(* ROI files *)

Digits == <<"0","1","2","3","4","5","6","7","8","9">>

\* str(n) of an integer, as YAML writes it
RECURSIVE int_str(_)
int_str(n) ==
    IF n < 0 THEN <<"-">> \o int_str(0 - n)
    ELSE IF n < 10 THEN <<Digits[n + 1]>>
    ELSE int_str(n \div 10) \o <<Digits[(n % 10) + 1]>>

DigitValue(c) == CHOOSE d \in 0..9 : Digits[d + 1] = c

\* int(s) of a YAML integer
RECURSIVE str_nat(_)
str_nat(s) ==
    IF s = <<>> THEN 0
    ELSE 10 * str_nat(SubSeq(s, 1, Len(s) - 1)) + DigitValue(s[Len(s)])

str_int(s) == IF Head(s) = "-" THEN 0 - str_nat(Tail(s)) ELSE str_nat(s)

\* yaml.safe_dump(vertices.tolist(), indent=2): a block sequence of block
\* sequences of integers
safe_dump(vertices) ==
    IF vertices = <<>> THEN <<"[","]","\n">>
    ELSE Flatten([n \in DOMAIN vertices |->
             <<"-"," ","-"," ">> \o int_str(vertices[n][1]) \o <<"\n">>
             \o <<" "," ","-"," ">> \o int_str(vertices[n][2]) \o <<"\n">>])

\* The lines of a text that ends every line with a newline.
RECURSIVE Lines(_, _)
Lines(text, line) ==
    IF text = <<>> THEN <<>>
    ELSE IF Head(text) = "\n" THEN <<line>> \o Lines(Tail(text), <<>>)
    ELSE Lines(Tail(text), Append(line, Head(text)))

\* yaml.safe_load of such a text: a line `- - x` opens a vertex, a line
\* `  - y` adds to the open one.
RECURSIVE LoadLines(_, _)
LoadLines(lines, vertices) ==
    IF lines = <<>> THEN vertices
    ELSE LET l == Head(lines)
             n == str_int(SubSeq(l, 5, Len(l)))
         IN  IF l[1] = "-" THEN LoadLines(Tail(lines), Append(vertices, <<n>>))
             ELSE LoadLines(Tail(lines),
                      [vertices EXCEPT ![Len(vertices)] = Append(@, n)])

safe_load(text) ==
    IF text = <<"[","]","\n">> THEN <<>> ELSE LoadLines(Lines(text, <<>>), <<>>)

\* The file at roi_path never read.
load_roi_Default(shape, file, roi_type) ==
    LET width == shape[1]
        height == shape[2]
    IN  IF roi_type = "poly"
        THEN << <<0, 0>>, <<0, width>>, <<height, width>>, <<height, 0>> >>
        ELSE << <<0, 0>>, <<height, width>> >>

\* load_roi(image, roi_path, roi_type): image.shape[-2:] is (width, height),
\* the file is None when it does not exist.
load_roi(shape, file, roi_type) ==
    LET width == shape[1]
        height == shape[2]
    IN  IF file # None_file THEN safe_load(file)
        ELSE IF roi_type = "poly"
             THEN << <<0, 0>>, <<0, width>>, <<height, width>>, <<height, 0>> >>
             ELSE << <<0, 0>>, <<height, width>> >>

\* image.shape[-2:] of the image edited
IMAGE_SHAPE == <<2, 3>>

\* A file an earlier session has saved: (1, 1), (-2, 10).
SavedFile ==
    <<"-"," ","-"," ","1","\n", " "," ","-"," ","1","\n",
      "-"," ","-"," ","-","2","\n", " "," ","-"," ","1","0","\n">>

\* int(x): a coordinate in half pixels, with its fraction cut off
Trunc(h) == IF h >= 0 THEN h \div 2 ELSE 0 - ((0 - h) \div 2)

\* The positions the ROI item is made with.
Positions(vertices) == [n \in DOMAIN vertices |-> <<2 * vertices[n][1], 2 * vertices[n][2]>>]

\* np.array(roi.saveState()["points"], dtype=int)
get_roi_vertices(points) ==
    [n \in DOMAIN points |-> <<Trunc(points[n][1]), Trunc(points[n][2])>>]

\* S among the keys that quit.
QuitKeys_WithS == {"Escape", "Q", "Enter", "S"}

\* image_viewer.keyPressEvent: the keys that call app.quit()
QuitKeys == {"Escape", "Q", "Enter"}

\* edit_roi.keyPressEvent: the key that calls save_roi()
SaveKeys == {"S"}

Keys == {"S", "Escape", "Q", "Enter", "Space"}

\* Where the pointer drops a handle of the ROI, in half pixels.
DragTo == { <<-1, 3>>, <<5, 4>> }

\* The exception of the body leaving image_viewer at once.
main_NoFinally(b) == IF b = "raised" THEN "propagated" ELSE "exec"

\* image_viewer.main: try: yield ... finally: app.exec()
main_finally(b) == "exec"

\* A call of compare_images, preview_images or edit_roi.
InitViewer ==
    /\ pc = "open"
    /\ viewer \in {"compare_images", "preview_images", "edit_roi"}
    /\ roi_kind \in IF viewer = "edit_roi" THEN {"poly", "line"} ELSE {""}
    /\ roi_file \in IF viewer = "edit_roi" THEN {None_file, SavedFile} ELSE {None_file}
    /\ roi_item = <<>>
    /\ handlers = {}
    /\ views_set = FALSE
    /\ body = "pending"
    /\ loop = "idle"
    /\ events = <<>>
    /\ outcome = None
    /\ loaded = None
    /\ FormsIdle /\ ParamsIdle /\ ConvIdle /\ LambIdle
    /\ TableIdle /\ TestIdle /\ CallIdle /\ LoadIdle
    /\ ValIdle /\ DataIdle
    /\ ExampleIdle
    /\ StageIdle
    /\ CineIdle

(***************************************************************************)
(* example_dataset                                                         *)
(***************************************************************************)

\* The file written before the preview is shown.
finally_actions_SaveFirst(p, s) ==
    (IF s THEN <<"to_netcdf">> ELSE <<>>) \o (IF p THEN <<"view_images">> ELSE <<>>)

\* The statements of the finally clause that the arguments select, in the
\* order of the code.
finally_actions(p, s) ==
    (IF p THEN <<"view_images">> ELSE <<>>) \o (IF s THEN <<"to_netcdf">> ELSE <<>>)

\* What the bodies do: nothing (compress_packed.main), replace the video,
\* raise, or replace the video and raise.
Blocks == {"pass", "modify", "raise", "modify_raise"}

\* A use of example_dataset, as a with-statement or as a decorator.
InitExample ==
    /\ pc = "example"
    /\ preview \in BOOLEAN
    /\ save \in BOOLEAN
    /\ block \in Blocks
    /\ ds_open = [VIDEO |-> "packed"]
    /\ original = None
    /\ todo = <<>>
    /\ shown = <<>>
    /\ dest_file = None
    /\ exit_log = <<>>
    /\ leaving = ""
    /\ FormsIdle /\ ParamsIdle /\ ConvIdle /\ LambIdle
    /\ TableIdle /\ TestIdle /\ CallIdle /\ LoadIdle
    /\ ValIdle /\ DataIdle /\ RoiIdle
    /\ StageIdle
    /\ CineIdle

(***************************************************************************)
(* The subcooled-experiment stage                                          *)
(***************************************************************************)

ExperimentTimes == {"T1", "T2", "T3"}

\* The sequences of distinct experiment times of at most n entries.
TimeLists(n) ==
    {t \in UNION {[1..k -> ExperimentTimes] : k \in 0..n} :
        \A i, j \in DOMAIN t : i # j => t[i] # t[j]}

\* main returning with tasks still pending or running.
Joined_NoWait(t) == TRUE

\* The end of `with ProcessPoolExecutor() as executor`: shutdown(wait=True)
\* returns once every task is over.
Joined(t) == \A i \in DOMAIN t : t[i] \in {"ok", "failed"}

Running(t) == {i \in DOMAIN t : t[i] = "running"}

\* A run of the stage's module or of export_all_tracks.
InitStage ==
    /\ pc = "stage"
    /\ script \in {"__main__", "export_all_tracks"}
    /\ nb_modified \in IF script = "__main__" THEN BOOLEAN ELSE {TRUE}
    /\ times \in TimeLists(MaxTimes)
    /\ thermal = ""
    /\ submitted = <<>>
    /\ tasks = <<>>
    /\ FormsIdle /\ ParamsIdle /\ ConvIdle /\ LambIdle
    /\ TableIdle /\ TestIdle /\ CallIdle /\ LoadIdle
    /\ ValIdle /\ DataIdle /\ RoiIdle /\ ExampleIdle
    /\ CineIdle

(***************************************************************************)
(* Conversion of the CINEs                                                 *)
(***************************************************************************)

\* The file names the directory may hold.
CineNames ==
    { <<"a", ".", "c", "i", "n", "e">>,
      <<"b", ".", "c", "i", "n", "e">>,
      <<"a", ".", "c", "i", "h", "x">>,
      <<"a", "b", ".", "c", "i", "n", "e">> }

\* The characters of the names, in the order of their code points.
Chars == <<".", "a", "b", "c", "e", "h", "i", "n", "x">>

Ord(c) == CHOOSE n \in DOMAIN Chars : Chars[n] = c

\* p < q for two paths of one directory: the comparison of their names
RECURSIVE Less(_, _)
Less(p, q) ==
    IF q = <<>> THEN FALSE
    ELSE IF p = <<>> THEN TRUE
    ELSE IF Head(p) # Head(q) THEN Ord(Head(p)) < Ord(Head(q))
    ELSE Less(Tail(p), Tail(q))

\* sorted(paths)
RECURSIVE sorted(_)
sorted(paths) ==
    IF paths = {} THEN <<>>
    ELSE LET first == CHOOSE p \in paths : \A q \in paths \ {p} : Less(p, q)
         IN  <<first>> \o sorted(paths \ {first})

\* The directory iterated from its last path to its first.
get_sorted_paths_Reversed(paths) ==
    LET s == sorted(paths) IN [n \in DOMAIN s |-> s[Len(s) + 1 - n]]

\* get_sorted_paths(path): sorted(path.iterdir())
get_sorted_paths(paths) == sorted(paths)

\* source.stem: the name up to its last dot
stem(p) ==
    LET dots == {n \in DOMAIN p : p[n] = "."}
        last == CHOOSE n \in dots : \A k \in dots : k <= n
    IN  SubSeq(p, 1, last - 1)

Stems == {stem(p) : p \in CineNames}

\* A file a former run has written.
OldFile == [source |-> <<"o", "l", "d">>]

\* A run of convert.main on a directory of CINEs, with some .nc files there
\* already.
InitCines ==
    /\ pc = "convert"
    /\ cines \in {c \in SUBSET CineNames : Cardinality(c) <= MaxCines}
    /\ existing \in SUBSET Stems
    /\ large_sources = [s \in Stems |-> IF s \in existing THEN OldFile ELSE None]
    /\ remaining = <<>>
    /\ visits = <<>>
    /\ logged = <<>>
    /\ FormsIdle /\ ParamsIdle /\ ConvIdle /\ LambIdle
    /\ TableIdle /\ TestIdle /\ CallIdle /\ LoadIdle
    /\ ValIdle /\ DataIdle /\ RoiIdle /\ ExampleIdle
    /\ StageIdle

Init ==
    \/ InitForms \/ InitNormalize \/ InitParams \/ InitConvert \/ InitLambdify
    \/ InitTables \/ InitTest \/ InitCall \/ InitLoad \/ InitValidate \/ InitDataset \/ InitViewer \/ InitExample \/ InitStage \/ InitCines

----------------------------------------------------------------------------
(* Actions *)

\* EQUATIONS[name] = Forms(eq).pipe(set_equation_forms)
LoadEquation ==
    /\ pc = "load"
    /\ forms' = set_equation_forms(eq)
    /\ applied' = Repaired(eq)
    /\ pc' = "loaded"
    /\ UNCHANGED <<eq, again>>
    /\ UNCHANGED <<paramVars, convVars, lambVars>>
    /\ UNCHANGED <<tableVars, testVars, callVars, loadVars>>
    /\ UNCHANGED valVars
    /\ UNCHANGED dataVars
    /\ UNCHANGED roiVars
    /\ UNCHANGED exVars
    /\ UNCHANGED stageVars
    /\ UNCHANGED cineVars

\* The repair of set_equation_forms applied to its own output.
RepairAgain ==
    /\ pc = "loaded"
    /\ ~Failed(forms) /\ ~NoSympy(forms)
    /\ again' = regex_replace(forms, REPAIR_REPLS(LOCALS))
    /\ pc' = "repaired"
    /\ UNCHANGED <<eq, forms, applied>>
    /\ UNCHANGED <<paramVars, convVars, lambVars>>
    /\ UNCHANGED <<tableVars, testVars, callVars, loadVars>>
    /\ UNCHANGED valVars
    /\ UNCHANGED dataVars
    /\ UNCHANGED roiVars
    /\ UNCHANGED exVars
    /\ UNCHANGED stageVars
    /\ UNCHANGED cineVars

\* handle_form_whitespace(f)
Normalize ==
    /\ pc = "normalize"
    /\ forms' = handle_form_whitespace(eq)
    /\ pc' = "normalized"
    /\ UNCHANGED <<eq, again, applied>>
    /\ UNCHANGED <<paramVars, convVars, lambVars>>
    /\ UNCHANGED <<tableVars, testVars, callVars, loadVars>>
    /\ UNCHANGED valVars
    /\ UNCHANGED dataVars
    /\ UNCHANGED roiVars
    /\ UNCHANGED exVars
    /\ UNCHANGED stageVars
    /\ UNCHANGED cineVars

\* handle_form_whitespace(handle_form_whitespace(f))
NormalizeAgain ==
    /\ pc = "normalized"
    /\ again' = handle_form_whitespace(forms)
    /\ pc' = "renormalized"
    /\ UNCHANGED <<eq, forms, applied>>
    /\ UNCHANGED <<paramVars, convVars, lambVars>>
    /\ UNCHANGED <<tableVars, testVars, callVars, loadVars>>
    /\ UNCHANGED valVars
    /\ UNCHANGED dataVars
    /\ UNCHANGED roiVars
    /\ UNCHANGED exVars
    /\ UNCHANGED stageVars
    /\ UNCHANGED cineVars

\* LATEX_PARAMS[name] = Forms(param).pipe(set_defaults).pipe(set_param_forms).pipe(replace)
BuildParam ==
    /\ pc = "param"
    /\ latex_param' = LATEX_PARAM(pname, param)
    /\ pc' = "param_done"
    /\ UNCHANGED <<pname, param>>
    /\ UNCHANGED <<formVars, convVars, lambVars>>
    /\ UNCHANGED <<tableVars, testVars, callVars, loadVars>>
    /\ UNCHANGED valVars
    /\ UNCHANGED dataVars
    /\ UNCHANGED roiVars
    /\ UNCHANGED exVars
    /\ UNCHANGED stageVars
    /\ UNCHANGED cineVars

\* default: contents = module.read_text()
ReadModule ==
    /\ pc = "start"
    /\ contents' = module
    /\ pc' = "loop"
    /\ UNCHANGED <<equations, module, idx, calls, symbolic, error, writes>>
    /\ UNCHANGED <<formVars, paramVars, lambVars>>
    /\ UNCHANGED <<tableVars, testVars, callVars, loadVars>>
    /\ UNCHANGED valVars
    /\ UNCHANGED dataVars
    /\ UNCHANGED roiVars
    /\ UNCHANGED exVars
    /\ UNCHANGED stageVars
    /\ UNCHANGED cineVars

\* default: an iteration that ends in one of the two `continue`s
SkipEquation ==
    /\ pc = "loop"
    /\ idx < Len(equations)
    /\ Skipped(equations[idx + 1])
    /\ idx' = idx + 1
    /\ UNCHANGED <<pc, equations, module, contents, calls, symbolic, error, writes>>
    /\ UNCHANGED <<formVars, paramVars, lambVars>>
    /\ UNCHANGED <<tableVars, testVars, callVars, loadVars>>
    /\ UNCHANGED valVars
    /\ UNCHANGED dataVars
    /\ UNCHANGED roiVars
    /\ UNCHANGED exVars
    /\ UNCHANGED stageVars
    /\ UNCHANGED cineVars

\* default: an iteration that calls convert and update; an error raised by
\* convert leaves the loop and the function.
ConvertEquation ==
    /\ pc = "loop"
    /\ idx < Len(equations)
    /\ ~Skipped(equations[idx + 1])
    /\ \E run \in ToolRuns :
          LET r == convert(run, SYMPY_REPL)
          IN  /\ calls' = Append(calls, [eq |-> idx + 1, returncode |-> run.returncode,
                                         stdout |-> run.stdout, stderr |-> run.stderr])
              /\ IF Failed(r)
                 THEN /\ error' = r
                      /\ pc' = "raised"
                      /\ UNCHANGED <<idx, symbolic, contents>>
                 ELSE /\ symbolic' = [symbolic EXCEPT ![idx + 1] = r]
                      /\ contents' = update(contents, idx + 1, r.text)
                      /\ idx' = idx + 1
                      /\ UNCHANGED <<pc, error>>
    /\ UNCHANGED <<equations, module, writes>>
    /\ UNCHANGED <<formVars, paramVars, lambVars>>
    /\ UNCHANGED <<tableVars, testVars, callVars, loadVars>>
    /\ UNCHANGED valVars
    /\ UNCHANGED dataVars
    /\ UNCHANGED roiVars
    /\ UNCHANGED exVars
    /\ UNCHANGED stageVars
    /\ UNCHANGED cineVars

\* default: module.write_text(contents) after the loop
WriteModule ==
    /\ pc = "loop"
    /\ idx = Len(equations)
    /\ module' = contents
    /\ writes' = writes + 1
    /\ pc' = "written"
    /\ UNCHANGED <<equations, contents, idx, calls, symbolic, error>>
    /\ UNCHANGED <<formVars, paramVars, lambVars>>
    /\ UNCHANGED <<tableVars, testVars, callVars, loadVars>>
    /\ UNCHANGED valVars
    /\ UNCHANGED dataVars
    /\ UNCHANGED roiVars
    /\ UNCHANGED exVars
    /\ UNCHANGED stageVars
    /\ UNCHANGED cineVars

\* get_correlations: a callable per solved equation, its arguments being the
\* registered free symbols in the iteration order of the free_symbols set.
get_correlations ==
    /\ pc = "solved"
    /\ correlations' \in
          { c \in [Equation -> UNION {Perms(A) : A \in SUBSET FreeSymbols}] :
              \A name \in Equation : Range(c[name]) = LambdifyArgs(solutions[name]) }
    /\ pc' = "correlations"
    /\ UNCHANGED solutions
    /\ UNCHANGED <<formVars, paramVars, convVars>>
    /\ UNCHANGED <<tableVars, testVars, callVars, loadVars>>
    /\ UNCHANGED valVars
    /\ UNCHANGED dataVars
    /\ UNCHANGED roiVars
    /\ UNCHANGED exVars
    /\ UNCHANGED stageVars
    /\ UNCHANGED cineVars

\* LATEX_PARAMS = {...}
BuildLatexParams ==
    /\ pc = "import"
    /\ LATEX_PARAMS' = LATEX_PARAMS_items
    /\ pc' = "params"
    /\ UNCHANGED SUBS
    /\ UNCHANGED <<formVars, paramVars, convVars, lambVars>>
    /\ UNCHANGED <<testVars, callVars, loadVars>>
    /\ UNCHANGED valVars
    /\ UNCHANGED dataVars
    /\ UNCHANGED roiVars
    /\ UNCHANGED exVars
    /\ UNCHANGED stageVars
    /\ UNCHANGED cineVars

\* SUBS = {...}
BuildSubs ==
    /\ pc = "params"
    /\ SUBS' = SUBS_items(<<>>, LATEX_PARAMS)
    /\ pc' = "subs"
    /\ UNCHANGED LATEX_PARAMS
    /\ UNCHANGED <<formVars, paramVars, convVars, lambVars>>
    /\ UNCHANGED <<testVars, callVars, loadVars>>
    /\ UNCHANGED valVars
    /\ UNCHANGED dataVars
    /\ UNCHANGED roiVars
    /\ UNCHANGED exVars
    /\ UNCHANGED stageVars
    /\ UNCHANGED cineVars

\* test_beta.test_python: equation(**{SYMBOLS[kwd]: value ...})
test_python ==
    /\ pc = "test_python"
    /\ kwds' = KeywordsMapped(SYMBOL_EXPECTATIONS, signature)
    /\ pc' = "python_called"
    /\ UNCHANGED signature
    /\ UNCHANGED <<formVars, paramVars, convVars, lambVars>>
    /\ UNCHANGED <<tableVars, callVars, loadVars>>
    /\ UNCHANGED valVars
    /\ UNCHANGED dataVars
    /\ UNCHANGED roiVars
    /\ UNCHANGED exVars
    /\ UNCHANGED stageVars
    /\ UNCHANGED cineVars

\* test_beta.test_sympy: corr(**{kwd: value ...})
test_sympy ==
    /\ pc = "test_sympy"
    /\ kwds' = Keywords(SYMBOL_EXPECTATIONS, signature)
    /\ pc' = "sympy_called"
    /\ UNCHANGED signature
    /\ UNCHANGED <<formVars, paramVars, convVars, lambVars>>
    /\ UNCHANGED <<tableVars, callVars, loadVars>>
    /\ UNCHANGED valVars
    /\ UNCHANGED dataVars
    /\ UNCHANGED roiVars
    /\ UNCHANGED exVars
    /\ UNCHANGED stageVars
    /\ UNCHANGED cineVars

\* test_equations: equation(**{kwd: value for kwd, value in KWDS.items() ...})
test_equations ==
    /\ pc = "test_equations"
    /\ kwds' = Keywords(KWDS, signature)
    /\ pc' = "equations_called"
    /\ UNCHANGED signature
    /\ UNCHANGED <<formVars, paramVars, convVars, lambVars>>
    /\ UNCHANGED <<tableVars, callVars, loadVars>>
    /\ UNCHANGED valVars
    /\ UNCHANGED dataVars
    /\ UNCHANGED roiVars
    /\ UNCHANGED exVars
    /\ UNCHANGED stageVars
    /\ UNCHANGED cineVars

\* One call of a transformation, from the call to the return.
Call ==
    /\ pc = "call"
    /\ LET c == Invoke(callee, heap, arg)
       IN  heap' = c.heap /\ ret' = c.ref
    /\ pc' = "returned"
    /\ UNCHANGED <<callee, arg, passed>>
    /\ UNCHANGED <<formVars, paramVars, convVars, lambVars>>
    /\ UNCHANGED <<tableVars, testVars, loadVars>>
    /\ UNCHANGED valVars
    /\ UNCHANGED dataVars
    /\ UNCHANGED roiVars
    /\ UNCHANGED exVars
    /\ UNCHANGED stageVars
    /\ UNCHANGED cineVars

\* EQUATIONS = {name: Forms(eq).pipe(set_equation_forms) for name, eq in ...}:
\* the item of one correlation
LoadCorrelation ==
    /\ pc = "loading"
    /\ \E n \in DOMAIN raw :
          /\ raw[n][1] \notin Names(EQUATIONS)
          /\ EQUATIONS' = Load(EQUATIONS, raw[n][1], raw[n][2])
    /\ UNCHANGED <<pc, raw, other>>
    /\ UNCHANGED <<formVars, paramVars, convVars, lambVars>>
    /\ UNCHANGED <<tableVars, testVars, callVars>>
    /\ UNCHANGED valVars
    /\ UNCHANGED dataVars
    /\ UNCHANGED roiVars
    /\ UNCHANGED exVars
    /\ UNCHANGED stageVars
    /\ UNCHANGED cineVars

\* The same item in a load of other correlations.
LoadOther ==
    /\ pc = "loading"
    /\ \E n \in DOMAIN raw :
          /\ raw[n][1] \notin Names(other)
          /\ other' = Load(other, raw[n][1], raw[n][2])
    /\ UNCHANGED <<pc, raw, EQUATIONS>>
    /\ UNCHANGED <<formVars, paramVars, convVars, lambVars>>
    /\ UNCHANGED <<tableVars, testVars, callVars>>
    /\ UNCHANGED valVars
    /\ UNCHANGED dataVars
    /\ UNCHANGED roiVars
    /\ UNCHANGED exVars
    /\ UNCHANGED stageVars
    /\ UNCHANGED cineVars

\* One call of the validator.
Validate ==
    /\ pc = "validate"
    /\ LET r == validate(info)
       IN  IF Failed(r) THEN raised' = r /\ UNCHANGED f_calls
           ELSE f_calls' = Append(f_calls, r.called) /\ UNCHANGED raised
    /\ pc' = "validated"
    /\ UNCHANGED info
    /\ UNCHANGED <<formVars, paramVars, convVars, lambVars>>
    /\ UNCHANGED <<tableVars, testVars, callVars, loadVars>>
    /\ UNCHANGED dataVars
    /\ UNCHANGED roiVars
    /\ UNCHANGED exVars
    /\ UNCHANGED stageVars
    /\ UNCHANGED cineVars

\* get_dataset(video, num_frames, frame)
GetDataset ==
    /\ pc = "dataset"
    /\ Len(ds_calls) < MaxCalls
    /\ \E a \in DatasetArgs :
          IF FrameOf(a) = "ValueError"
          THEN /\ ds_calls' = Append(ds_calls, [args |-> a, result |-> ValueError])
               /\ UNCHANGED unc_source
          ELSE LET ds == SourceOf(unc_source, source_ds)
               IN  /\ unc_source' = IF unc_source = None THEN UncompressedCopy(ds)
                                    ELSE unc_source
                   /\ ds_calls' = Append(ds_calls,
                          [args |-> a, result |-> get_dataset(ds, roi_ds, FrameOf(a))])
    /\ UNCHANGED <<pc, source_ds, roi_ds>>
    /\ UNCHANGED <<formVars, paramVars, convVars, lambVars>>
    /\ UNCHANGED <<tableVars, testVars, callVars, loadVars>>
    /\ UNCHANGED <<valVars>>
    /\ UNCHANGED roiVars
    /\ UNCHANGED exVars
    /\ UNCHANGED stageVars
    /\ UNCHANGED cineVars

\* image_viewer up to its yield: add_image_views() and add_actions()
EnterViewer ==
    /\ pc = "open"
    /\ handlers' = {"viewer_keys", "continue_button"}
    /\ pc' = "with"
    /\ UNCHANGED <<viewer, roi_kind, roi_file, roi_item, views_set, body, loop, events,
                   outcome, loaded>>
    /\ UNCHANGED <<formVars, paramVars, convVars, lambVars>>
    /\ UNCHANGED <<tableVars, testVars, callVars, loadVars>>
    /\ UNCHANGED <<valVars, dataVars>>
    /\ UNCHANGED exVars
    /\ UNCHANGED stageVars
    /\ UNCHANGED cineVars

\* The body of the with-block running to its end: the ROI made from
\* load_roi and main() in edit_roi, setImage in the other two.
Body ==
    /\ pc = "with"
    /\ IF viewer = "edit_roi"
       THEN /\ roi_item' = Positions(load_roi(IMAGE_SHAPE, roi_file, roi_kind))
            /\ handlers' = handlers \cup {"roi_keys", "save_button"}
       ELSE UNCHANGED <<roi_item, handlers>>
    /\ views_set' = TRUE
    /\ body' = "done"
    /\ pc' = "finally"
    /\ UNCHANGED <<viewer, roi_kind, roi_file, loop, events, outcome, loaded>>
    /\ UNCHANGED <<formVars, paramVars, convVars, lambVars>>
    /\ UNCHANGED <<tableVars, testVars, callVars, loadVars>>
    /\ UNCHANGED <<valVars, dataVars>>
    /\ UNCHANGED exVars
    /\ UNCHANGED stageVars
    /\ UNCHANGED cineVars

\* The body raising before it has connected or set anything.
BodyRaises ==
    /\ pc = "with"
    /\ body' = "raised"
    /\ pc' = "finally"
    /\ UNCHANGED <<viewer, roi_kind, roi_file, roi_item, handlers, views_set, loop,
                   events, outcome, loaded>>
    /\ UNCHANGED <<formVars, paramVars, convVars, lambVars>>
    /\ UNCHANGED <<tableVars, testVars, callVars, loadVars>>
    /\ UNCHANGED <<valVars, dataVars>>
    /\ UNCHANGED exVars
    /\ UNCHANGED stageVars
    /\ UNCHANGED cineVars

\* image_viewer after its yield: app.exec() starts the event loop.
Exec ==
    /\ pc = "finally"
    /\ IF main_finally(body) = "exec"
       THEN loop' = "running" /\ pc' = "events" /\ UNCHANGED outcome
       ELSE pc' = "propagated" /\ outcome' = [error |-> "Exception"] /\ UNCHANGED loop
    /\ UNCHANGED <<viewer, roi_kind, roi_file, roi_item, handlers, views_set, body,
                   events, loaded>>
    /\ UNCHANGED <<formVars, paramVars, convVars, lambVars>>
    /\ UNCHANGED <<tableVars, testVars, callVars, loadVars>>
    /\ UNCHANGED <<valVars, dataVars>>
    /\ UNCHANGED exVars
    /\ UNCHANGED stageVars
    /\ UNCHANGED cineVars

\* What the loop does with one event: save_roi() writes the file, app.quit()
\* ends the loop after the event.
Handle(ev, saves, quits) ==
    /\ roi_file' = IF saves THEN safe_dump(get_roi_vertices(roi_item)) ELSE roi_file
    /\ events' = Append(events, [ev |-> ev, roi |-> roi_item, wrote |-> saves,
                                 file |-> roi_file', quit |-> quits])
    /\ IF quits THEN loop' = "exited" /\ pc' = "quit" ELSE UNCHANGED <<loop, pc>>
    /\ quits \/ Len(events) < MaxEvents

\* A key press: key_signal calls the connected handlers.
KeyPress ==
    /\ pc = "events"
    /\ \E key \in Keys :
          Handle(key,
                 "roi_keys" \in handlers /\ key \in SaveKeys,
                 "viewer_keys" \in handlers /\ key \in QuitKeys)
    /\ UNCHANGED <<viewer, roi_kind, roi_item, handlers, views_set, body, outcome, loaded>>
    /\ UNCHANGED <<formVars, paramVars, convVars, lambVars>>
    /\ UNCHANGED <<tableVars, testVars, callVars, loadVars>>
    /\ UNCHANGED <<valVars, dataVars>>
    /\ UNCHANGED exVars
    /\ UNCHANGED stageVars
    /\ UNCHANGED cineVars

\* A click on a button of the window, or on the window's close box.
Click ==
    /\ pc = "events"
    /\ \/ "save_button" \in handlers /\ Handle("Save ROI", TRUE, FALSE)
       \/ "continue_button" \in handlers /\ Handle("Continue", FALSE, TRUE)
       \/ Handle("close", FALSE, TRUE)
    /\ UNCHANGED <<viewer, roi_kind, roi_item, handlers, views_set, body, outcome, loaded>>
    /\ UNCHANGED <<formVars, paramVars, convVars, lambVars>>
    /\ UNCHANGED <<tableVars, testVars, callVars, loadVars>>
    /\ UNCHANGED <<valVars, dataVars>>
    /\ UNCHANGED exVars
    /\ UNCHANGED stageVars
    /\ UNCHANGED cineVars

\* The user dragging a handle of the ROI.
Drag ==
    /\ pc = "events"
    /\ roi_item # <<>>
    /\ Len(events) < MaxEvents
    /\ \E h \in 1..2, p \in DragTo :
          /\ roi_item' = [roi_item EXCEPT ![h] = p]
          /\ events' = Append(events, [ev |-> "drag", roi |-> roi_item', wrote |-> FALSE,
                                       file |-> roi_file, quit |-> FALSE])
    /\ UNCHANGED <<pc, viewer, roi_kind, roi_file, handlers, views_set, body, loop,
                   outcome, loaded>>
    /\ UNCHANGED <<formVars, paramVars, convVars, lambVars>>
    /\ UNCHANGED <<tableVars, testVars, callVars, loadVars>>
    /\ UNCHANGED <<valVars, dataVars>>
    /\ UNCHANGED exVars
    /\ UNCHANGED stageVars
    /\ UNCHANGED cineVars

\* After app.exec(): the exception of the body goes on to the caller, or
\* the function returns; edit_roi returns get_roi_vertices().
Leave ==
    /\ pc = "quit"
    /\ IF body = "raised"
       THEN pc' = "propagated" /\ outcome' = [error |-> "Exception"]
       ELSE /\ pc' = "closed"
            /\ outcome' = IF viewer = "edit_roi" THEN [vertices |-> get_roi_vertices(roi_item)]
                         ELSE None
    /\ UNCHANGED <<viewer, roi_kind, roi_file, roi_item, handlers, views_set, body, loop,
                   events, loaded>>
    /\ UNCHANGED <<formVars, paramVars, convVars, lambVars>>
    /\ UNCHANGED <<tableVars, testVars, callVars, loadVars>>
    /\ UNCHANGED <<valVars, dataVars>>
    /\ UNCHANGED exVars
    /\ UNCHANGED stageVars
    /\ UNCHANGED cineVars

\* load_roi on the same path once the editor is closed.
LoadRoi ==
    /\ pc \in {"closed", "propagated"}
    /\ viewer = "edit_roi"
    /\ loaded' = [vertices |-> load_roi(IMAGE_SHAPE, roi_file, roi_kind)]
    /\ pc' = "reloaded"
    /\ UNCHANGED <<viewer, roi_kind, roi_file, roi_item, handlers, views_set, body, loop,
                   events, outcome>>
    /\ UNCHANGED <<formVars, paramVars, convVars, lambVars>>
    /\ UNCHANGED <<tableVars, testVars, callVars, loadVars>>
    /\ UNCHANGED <<valVars, dataVars>>
    /\ UNCHANGED exVars
    /\ UNCHANGED stageVars
    /\ UNCHANGED cineVars

\* with xr.open_dataset(_source) as ds: original = ds[VIDEO]
OpenExample ==
    /\ pc = "example"
    /\ original' = ds_open["VIDEO"]
    /\ pc' = "example_body"
    /\ UNCHANGED <<preview, save, block, ds_open, todo, shown, dest_file, exit_log,
                   leaving>>
    /\ UNCHANGED <<formVars, paramVars, convVars, lambVars>>
    /\ UNCHANGED <<tableVars, testVars, callVars, loadVars>>
    /\ UNCHANGED <<valVars, dataVars, roiVars>>
    /\ UNCHANGED stageVars
    /\ UNCHANGED cineVars

\* The body of the with-block, up to its end or to the exception it raises;
\* control then enters the finally clause.
RunBlock ==
    /\ pc = "example_body"
    /\ ds_open' = IF block \in {"modify", "modify_raise"}
                  THEN [ds_open EXCEPT !["VIDEO"] = "compressed"] ELSE ds_open
    /\ leaving' = IF block \in {"raise", "modify_raise"} THEN "exception" ELSE "end"
    /\ todo' = finally_actions(preview, save)
    /\ pc' = "example_finally"
    /\ UNCHANGED <<preview, save, block, original, shown, dest_file, exit_log>>
    /\ UNCHANGED <<formVars, paramVars, convVars, lambVars>>
    /\ UNCHANGED <<tableVars, testVars, callVars, loadVars>>
    /\ UNCHANGED <<valVars, dataVars, roiVars>>
    /\ UNCHANGED stageVars
    /\ UNCHANGED cineVars

\* if preview: view_images(dict(original=original, updated=updated))
view_images ==
    /\ pc = "example_finally"
    /\ todo # <<>>
    /\ Head(todo) = "view_images"
    /\ shown' = Append(shown, [original |-> original, updated |-> ds_open["VIDEO"]])
    /\ exit_log' = Append(exit_log, "preview")
    /\ todo' = Tail(todo)
    /\ UNCHANGED <<pc, preview, save, block, ds_open, original, dest_file, leaving>>
    /\ UNCHANGED <<formVars, paramVars, convVars, lambVars>>
    /\ UNCHANGED <<tableVars, testVars, callVars, loadVars>>
    /\ UNCHANGED <<valVars, dataVars, roiVars>>
    /\ UNCHANGED stageVars
    /\ UNCHANGED cineVars

\* if save: ds.to_netcdf(path=_destination, **kwargs)
to_netcdf ==
    /\ pc = "example_finally"
    /\ todo # <<>>
    /\ Head(todo) = "to_netcdf"
    /\ dest_file' = ds_open
    /\ exit_log' = Append(exit_log, "save")
    /\ todo' = Tail(todo)
    /\ UNCHANGED <<pc, preview, save, block, ds_open, original, shown, leaving>>
    /\ UNCHANGED <<formVars, paramVars, convVars, lambVars>>
    /\ UNCHANGED <<tableVars, testVars, callVars, loadVars>>
    /\ UNCHANGED <<valVars, dataVars, roiVars>>
    /\ UNCHANGED stageVars
    /\ UNCHANGED cineVars

\* The end of the finally clause: the exception of the body goes on, or the
\* with-statement ends.
LeaveExample ==
    /\ pc = "example_finally"
    /\ todo = <<>>
    /\ leaving' = IF leaving = "exception" THEN "propagated" ELSE "returned"
    /\ pc' = "example_left"
    /\ UNCHANGED <<preview, save, block, ds_open, original, todo, shown, dest_file,
                   exit_log>>
    /\ UNCHANGED <<formVars, paramVars, convVars, lambVars>>
    /\ UNCHANGED <<tableVars, testVars, callVars, loadVars>>
    /\ UNCHANGED <<valVars, dataVars, roiVars>>
    /\ UNCHANGED stageVars
    /\ UNCHANGED cineVars

\* if not modified(find_collapse): return
CheckModified ==
    /\ pc = "stage"
    /\ IF script = "export_all_tracks"
       THEN pc' = "stage_pool" /\ UNCHANGED thermal
       ELSE IF ~nb_modified
       THEN pc' = "stage_returned" /\ UNCHANGED thermal
       ELSE pc' = "stage_thermal" /\ thermal' = "running"
    /\ UNCHANGED <<script, nb_modified, times, submitted, tasks>>
    /\ UNCHANGED <<formVars, paramVars, convVars, lambVars>>
    /\ UNCHANGED <<tableVars, testVars, callVars, loadVars>>
    /\ UNCHANGED <<valVars, dataVars, roiVars, exVars>>
    /\ UNCHANGED cineVars

\* execute_notebook of the thermal-data notebook: it ends, or it raises and
\* main raises with it.
ExecuteThermal ==
    /\ pc = "stage_thermal"
    /\ \/ thermal' = "done" /\ pc' = "stage_pool"
       \/ thermal' = "failed" /\ pc' = "stage_raised"
    /\ UNCHANGED <<script, nb_modified, times, submitted, tasks>>
    /\ UNCHANGED <<formVars, paramVars, convVars, lambVars>>
    /\ UNCHANGED <<tableVars, testVars, callVars, loadVars>>
    /\ UNCHANGED <<valVars, dataVars, roiVars, exVars>>
    /\ UNCHANGED cineVars

\* executor.submit(...) for the next time of the loop
Submit ==
    /\ pc = "stage_pool"
    /\ Len(submitted) < Len(times)
    /\ submitted' = Append(submitted, times[Len(submitted) + 1])
    /\ tasks' = Append(tasks, "pending")
    /\ UNCHANGED <<pc, script, nb_modified, times, thermal>>
    /\ UNCHANGED <<formVars, paramVars, convVars, lambVars>>
    /\ UNCHANGED <<tableVars, testVars, callVars, loadVars>>
    /\ UNCHANGED <<valVars, dataVars, roiVars, exVars>>
    /\ UNCHANGED cineVars

\* The loop is over: the with-statement shuts the pool down and waits.
Shutdown ==
    /\ pc = "stage_pool"
    /\ Len(submitted) = Len(times)
    /\ pc' = "stage_join"
    /\ UNCHANGED <<script, nb_modified, times, thermal, submitted, tasks>>
    /\ UNCHANGED <<formVars, paramVars, convVars, lambVars>>
    /\ UNCHANGED <<tableVars, testVars, callVars, loadVars>>
    /\ UNCHANGED <<valVars, dataVars, roiVars, exVars>>
    /\ UNCHANGED cineVars

\* A worker process takes a pending task.
StartTask ==
    /\ pc \in {"stage_pool", "stage_join"}
    /\ Cardinality(Running(tasks)) < MaxWorkers
    /\ \E i \in DOMAIN tasks :
          /\ tasks[i] = "pending"
          /\ \A j \in 1..(i - 1) : tasks[j] # "pending"
          /\ tasks' = [tasks EXCEPT ![i] = "running"]
    /\ UNCHANGED <<pc, script, nb_modified, times, thermal, submitted>>
    /\ UNCHANGED <<formVars, paramVars, convVars, lambVars>>
    /\ UNCHANGED <<tableVars, testVars, callVars, loadVars>>
    /\ UNCHANGED <<valVars, dataVars, roiVars, exVars>>
    /\ UNCHANGED cineVars

\* A task ends or raises in its worker; the exception stays in its future.
FinishTask ==
    /\ pc \in {"stage_pool", "stage_join"}
    /\ \E i \in Running(tasks), how \in {"ok", "failed"} :
          tasks' = [tasks EXCEPT ![i] = how]
    /\ UNCHANGED <<pc, script, nb_modified, times, thermal, submitted>>
    /\ UNCHANGED <<formVars, paramVars, convVars, lambVars>>
    /\ UNCHANGED <<tableVars, testVars, callVars, loadVars>>
    /\ UNCHANGED <<valVars, dataVars, roiVars, exVars>>
    /\ UNCHANGED cineVars

\* The with-statement ends and main returns.
ReturnStage ==
    /\ pc = "stage_join"
    /\ Joined(tasks)
    /\ pc' = "stage_returned"
    /\ UNCHANGED <<script, nb_modified, times, thermal, submitted, tasks>>
    /\ UNCHANGED <<formVars, paramVars, convVars, lambVars>>
    /\ UNCHANGED <<tableVars, testVars, callVars, loadVars>>
    /\ UNCHANGED <<valVars, dataVars, roiVars, exVars>>
    /\ UNCHANGED cineVars

\* for source in get_sorted_paths(LOCAL_PATHS.cines)
StartConvert ==
    /\ pc = "convert"
    /\ remaining' = get_sorted_paths(cines)
    /\ pc' = "convert_loop"
    /\ UNCHANGED <<cines, large_sources, existing, visits, logged>>
    /\ UNCHANGED <<formVars, paramVars, convVars, lambVars>>
    /\ UNCHANGED <<tableVars, testVars, callVars, loadVars>>
    /\ UNCHANGED <<valVars, dataVars, roiVars, exVars>>
    /\ UNCHANGED <<stageVars>>

\* if destination.exists(): continue
SkipExisting ==
    /\ pc = "convert_loop"
    /\ remaining # <<>>
    /\ large_sources[stem(Head(remaining))] # None
    /\ visits' = Append(visits, [source |-> Head(remaining), did |-> "skipped"])
    /\ remaining' = Tail(remaining)
    /\ UNCHANGED <<pc, cines, large_sources, existing, logged>>
    /\ UNCHANGED <<formVars, paramVars, convVars, lambVars>>
    /\ UNCHANGED <<tableVars, testVars, callVars, loadVars>>
    /\ UNCHANGED <<valVars, dataVars, roiVars, exVars>>
    /\ UNCHANGED <<stageVars>>

\* prepare_dataset(source).to_netcdf(path=destination)
ConvertCine ==
    /\ pc = "convert_loop"
    /\ remaining # <<>>
    /\ large_sources[stem(Head(remaining))] = None
    /\ large_sources' = [large_sources EXCEPT ![stem(Head(remaining))] =
                            [source |-> Head(remaining)]]
    /\ visits' = Append(visits, [source |-> Head(remaining), did |-> "converted"])
    /\ remaining' = Tail(remaining)
    /\ UNCHANGED <<pc, cines, existing, logged>>
    /\ UNCHANGED <<formVars, paramVars, convVars, lambVars>>
    /\ UNCHANGED <<tableVars, testVars, callVars, loadVars>>
    /\ UNCHANGED <<valVars, dataVars, roiVars, exVars>>
    /\ UNCHANGED <<stageVars>>

\* except Exception: logger.exception(source.stem); continue
ConvertFails ==
    /\ pc = "convert_loop"
    /\ remaining # <<>>
    /\ large_sources[stem(Head(remaining))] = None
    /\ logged' = Append(logged, stem(Head(remaining)))
    /\ visits' = Append(visits, [source |-> Head(remaining), did |-> "failed"])
    /\ remaining' = Tail(remaining)
    /\ UNCHANGED <<pc, cines, large_sources, existing>>
    /\ UNCHANGED <<formVars, paramVars, convVars, lambVars>>
    /\ UNCHANGED <<tableVars, testVars, callVars, loadVars>>
    /\ UNCHANGED <<valVars, dataVars, roiVars, exVars>>
    /\ UNCHANGED <<stageVars>>

\* The loop is over and main returns.
EndConvert ==
    /\ pc = "convert_loop"
    /\ remaining = <<>>
    /\ pc' = "convert_done"
    /\ UNCHANGED <<cines, large_sources, existing, remaining, visits, logged>>
    /\ UNCHANGED <<formVars, paramVars, convVars, lambVars>>
    /\ UNCHANGED <<tableVars, testVars, callVars, loadVars>>
    /\ UNCHANGED <<valVars, dataVars, roiVars, exVars>>
    /\ UNCHANGED <<stageVars>>

Next ==
    \/ LoadEquation \/ RepairAgain
    \/ Normalize \/ NormalizeAgain
    \/ BuildLatexParams \/ BuildSubs
    \/ test_python \/ test_sympy \/ test_equations
    \/ Call
    \/ LoadCorrelation \/ LoadOther
    \/ BuildParam
    \/ ReadModule \/ SkipEquation \/ ConvertEquation \/ WriteModule
    \/ get_correlations
    \/ Validate
    \/ GetDataset
    \/ EnterViewer \/ Body \/ BodyRaises \/ Exec \/ KeyPress \/ Click \/ Drag \/ Leave \/ LoadRoi
    \/ OpenExample \/ RunBlock \/ view_images \/ to_netcdf \/ LeaveExample
    \/ CheckModified \/ ExecuteThermal \/ Submit \/ Shutdown \/ StartTask \/ FinishTask \/ ReturnStage
    \/ StartConvert \/ SkipExisting \/ ConvertCine \/ ConvertFails \/ EndConvert

Spec == Init /\ [][Next]_vars

----------------------------------------------------------------------------
(* Properties of set_equation_forms *)

Loaded == pc \in {"loaded", "repaired"}

DeclaresSympy == "sympy" \in DOMAIN eq /\ eq["sympy"] # <<>>

\* A text with nothing to normalise or repair: no whitespace other than the
\* space, and none of the characters every rewrite needs.
Clean(s) == Range(s) \cap ({"{", "*", "("} \cup (Range(whitespace) \ {" "})) = {}

\* C1 as stated: whenever the input sympy form is non-empty, the sympy form
\* returned by set_equation_forms is identical to it.
C1_SynthesisGuard == (Loaded /\ DeclaresSympy) => forms["sympy"] = eq["sympy"]

\* C1 amended: an empty or undeclared sympy form stays empty, and a non-empty
\* one is returned unchanged when it has nothing to normalise or repair.
C1_GuardAmended ==
    Loaded =>
        /\ NoSympy(eq) => forms["sympy"] = <<>>
        /\ (DeclaresSympy /\ Clean(eq["sympy"])) => forms["sympy"] = eq["sympy"]

C1_Witness ==
    /\ pc = "loaded" /\ DeclaresSympy /\ Clean(eq["sympy"])
    /\ " " \in Range(eq["sympy"])
    /\ forms["sympy"] = eq["sympy"]

\* C4 as stated: the repair turns `Re*(b0**0.5)` into `Re_b0**0.5`.
C4_MisSplitScenario ==
    (Loaded /\ DeclaresSympy /\ eq["sympy"] = ReSplit) => forms["sympy"] = ReRepaired

\* C4 amended: the repair turns `R*(e_b0**0.5)`, the symbol split after its
\* first character, into `Re_b0**0.5`, and leaves `Re*(b0**0.5)` as it is.
C4_MisSplitAmended ==
    (Loaded /\ DeclaresSympy) =>
        /\ eq["sympy"] = RSplit => forms["sympy"] = ReRepaired
        /\ eq["sympy"] = ReSplit => forms["sympy"] = ReSplit

C4_Witness ==
    pc = "loaded" /\ DeclaresSympy /\ eq["sympy"] = RSplit /\ forms["sympy"] = ReRepaired

\* The text the regex repair of set_equation_forms starts from.
Normalized == replace(handle_form_whitespace(Forms_make(eq)), BRACE_REPLS)["sympy"]

\* `find` matches somewhere in s.
Occurs(find, s) == \E k \in 1..Len(s) : MatchLen(find, Drop(s, k - 1)) > 0

NoSymbolSplitByParen ==
    \A n \in 1..Len(LOCALS) : ~Occurs(SplitParen(LOCALS[n]).find, Normalized)

\* C10 as stated: the repair applied to its own output changes nothing.
C10_RepairConverges == pc = "repaired" => again = forms

\* C10 amended: the repair applied to its own output changes nothing when no
\* registered symbol occurs split by a parenthesis in the text it started from.
C10_ConvergesAmended == (pc = "repaired" /\ NoSymbolSplitByParen) => again = forms

C10_Witness ==
    /\ pc = "repaired" /\ NoSymbolSplitByParen
    /\ forms["sympy"] # Normalized
    /\ again = forms

----------------------------------------------------------------------------
(* Properties of the parameter table *)

\* The rules r1..rn applied in sequence, each to the output of the one before.
RECURSIVE Chain(_, _)
Chain(text, repls) ==
    IF repls = <<>> THEN text
    ELSE Chain(str_replace(text, Head(repls).find, Head(repls).repl), Tail(repls))

\* The LaTeX form the escape corrections read.
LatexInEffect == set_param_forms(set_defaults(param, <<>>, kinds), pname)["latex"]

\* C2: the destination form reflects all rules of the sequence, applied in
\* order, each to the text produced by the rules before it.
C2_RuleChaining ==
    pc = "param_done" => latex_param["sympy"] = Chain(LatexInEffect, PARAM_REPLS)

\* C3: the token built for bubble_fourier, declared as `\Fo_\o`, is `Fo_0`.
C3_FourierToken ==
    (pc = "param_done" /\ pname = bubble_fourier /\ param = [latex |-> FoLatex])
        => latex_param["sympy"] = <<"F","o","_","0">>

Declares(k) == k \in DOMAIN param /\ param[k] # <<>>

\* C8 as stated: a declared non-empty sympy form is the token, whether or not
\* a LaTeX form is declared too.
C8_TokenPrecedence == (pc = "param_done" /\ Declares("sympy")) => latex_param["sympy"] = param["sympy"]

\* C8 amended: the token always comes from the LaTeX form in effect.  With a
\* LaTeX form declared, a declared sympy form is ignored; a declared sympy form
\* (free of backslashes) is the token only when no LaTeX form is declared; with
\* neither, the token is the parameter name.
C8_PrecedenceAmended ==
    pc = "param_done" =>
        /\ Declares("latex") =>
               latex_param["sympy"] = LATEX_PARAM(pname, [latex |-> param["latex"]])["sympy"]
        /\ (~Declares("latex") /\ Declares("sympy") /\ BS \notin Range(param["sympy"])) =>
               latex_param["sympy"] = param["sympy"]
        /\ (~Declares("latex") /\ ~Declares("sympy")) => latex_param["sympy"] = pname

C8_Witness ==
    /\ pc = "param_done" /\ Declares("latex") /\ Declares("sympy")
    /\ latex_param["sympy"] # param["sympy"]
    /\ latex_param["sympy"] = LATEX_PARAM(pname, [latex |-> param["latex"]])["sympy"]

\* C9 as stated: every loaded mapping has exactly the three kinds, and a kind
\* the entry does not declare has the value "".
C9_MissingKindsEmpty ==
    /\ Loaded => /\ DOMAIN forms = Range(kinds)
                 /\ \A k \in Range(kinds) \ DOMAIN eq : forms[k] = <<>>
    /\ pc = "param_done" =>
                 /\ DOMAIN latex_param = Range(kinds)
                 /\ \A k \in Range(kinds) \ DOMAIN param : latex_param[k] = <<>>

\* C9 amended: every loaded mapping has exactly the three kinds, loading never
\* fails on an undeclared kind, and an undeclared kind has the value "" except
\* the latex and sympy forms of a parameter, which are filled in from the
\* declared form or the parameter name.
C9_MissingKindsAmended ==
    /\ Loaded => /\ DOMAIN forms = Range(kinds)
                 /\ \A k \in Range(kinds) \ DOMAIN eq : forms[k] = <<>>
    /\ pc = "param_done" =>
                 /\ DOMAIN latex_param = Range(kinds)
                 /\ "python" \notin DOMAIN param => latex_param["python"] = <<>>
                 /\ latex_param["latex"] # <<>>

C9_Witness ==
    /\ pc = "param_done" /\ DOMAIN param = {"latex"}
    /\ DOMAIN latex_param = Range(kinds)
    /\ latex_param["python"] = <<>> /\ latex_param["sympy"] # <<>>

----------------------------------------------------------------------------
(* Properties of the converter *)

\* The equations default has to convert: a latex form and no sympy form.
Eligible(n) == equations[n].latex # <<>> /\ equations[n].sympy = <<>>

\* C5: once default has written the module, the module holds the converted
\* text as the sympy form of every equation that had a latex form and no
\* sympy form, and nothing else of the module has changed.
C5_ModuleUpdated ==
    pc = "written" =>
        \A n \in 1..Len(equations) :
            module[n] = IF Eligible(n) THEN symbolic[n].text ELSE equations[n].sympy

\* C7 as stated: a failure while processing one correlation of a batch is
\* fatal for that correlation only; every other correlation that needs
\* converting is still converted.
C7_FailureIsolated ==
    pc \in {"raised", "written"} =>
        \A n \in 1..Len(equations) :
            (Eligible(n) /\ (error = None \/ n # idx + 1)) => symbolic[n] # None

\* C7 amended: a failure while converting one correlation is fatal for the
\* whole run of default: the error leaves the loop at that correlation, no
\* later correlation is handed to the tool, and the module is never written.
C7_FailureAborts ==
    \A k \in 1..Len(calls) :
        calls[k].returncode # 0 =>
            /\ pc = "raised" /\ error # None
            /\ writes = 0
            /\ module = [n \in 1..Len(equations) |-> equations[n].sympy]
            /\ k = Len(calls) /\ calls[k].eq = idx + 1
            /\ \A n \in (idx + 1)..Len(equations) : symbolic[n] = None

C7_Witness ==
    /\ pc = "raised" /\ error # None
    /\ \E n \in (idx + 2)..Len(equations) : Eligible(n) /\ symbolic[n] = None
    /\ \E n \in 1..idx : symbolic[n] # None

----------------------------------------------------------------------------
(* Properties of get_correlations *)

Unregistered(name) == solutions[name] \ DOMAIN SYMBOLS

\* C6 as stated: an expression with a free symbol outside the registered
\* table is never materialized into a callable.
C6_UnknownSymbolFails ==
    pc = "correlations" => \A name \in Equation : Unregistered(name) = {}

\* C6 amended: materialization does not fail on an unregistered free symbol;
\* it returns a callable whose arguments are exactly the registered free
\* symbols of the expression, the unregistered ones being left out.
C6_UnknownSymbolOmitted ==
    pc = "correlations" =>
        \A name \in Equation :
            /\ Range(correlations[name]) = solutions[name] \cap DOMAIN SYMBOLS
            /\ Len(correlations[name]) = Cardinality(solutions[name] \cap DOMAIN SYMBOLS)

C6_Witness ==
    /\ pc = "correlations"
    /\ \E name \in Equation :
          /\ "Xyz" \in solutions[name]
          /\ Range(correlations[name]) = solutions[name] \ {"Xyz"}
          /\ Range(correlations[name]) # {}

----------------------------------------------------------------------------
(* Properties of handle_form_whitespace *)

OtherWhitespace == Range(whitespace) \ {" "}

\* C11: handle_form_whitespace applied to its own result changes nothing, and
\* after one application no form holds a whitespace character other than the
\* space.
C11_NormalizeIdempotent ==
    /\ pc \in {"normalized", "renormalized"} =>
           \A k \in Range(kinds) : Range(forms[k]) \cap OtherWhitespace = {}
    /\ pc = "renormalized" => again = forms

C11_Witness ==
    /\ pc = "renormalized" /\ again = forms /\ forms # eq
    /\ "\f" \in Range(eq["latex"]) /\ "\t" \in Range(eq["python"])

----------------------------------------------------------------------------
(* Properties of the token-to-name table *)

\* C12: looking up the token of every parameter of LATEX_PARAMS in SUBS gives
\* the parameter's name back, and no two parameters have the same token.
C12_TokenRoundTrip ==
    pc = "subs" =>
        /\ \A n \in DOMAIN LATEX_PARAMS :
               GetItem(SUBS, LATEX_PARAMS[n][2]["sympy"]) = LATEX_PARAMS[n][1]
        /\ \A m, n \in DOMAIN LATEX_PARAMS :
               m # n => LATEX_PARAMS[m][2]["sympy"] # LATEX_PARAMS[n][2]["sympy"]

C12_Witness ==
    /\ pc = "subs"
    /\ Len(LATEX_PARAMS) = 5 /\ Len(SUBS) = 5
    /\ GetItem(SUBS, <<"J","a">>) = bubble_jakob
    /\ GetItem(SUBS, <<"p","i">>) = pi

----------------------------------------------------------------------------
(* Properties of the order of the repair *)

FoTimes == <<"F","o","_","0","*","(","2",")">>

\* C13: the repair of set_equation_forms turns `Fo_0(2)` into `Fo_0*(2)`.
C13_MissingStarScenario ==
    (Loaded /\ DeclaresSympy /\ eq["sympy"] = FoCall) => forms["sympy"] = FoTimes

C13_Witness ==
    pc = "loaded" /\ DeclaresSympy /\ eq["sympy"] = FoCall /\ forms["sympy"] = FoTimes

\* The three patterns of symbol S, as the specification numbers them.
Rule1(S) == [lit |-> <<S[1], "*", "(">> \o SubSeq(S, 2, Len(S)), group |-> TRUE]
Rule2(S) == [lit |-> <<S[1], "*">> \o SubSeq(S, 2, Len(S)), group |-> FALSE]
Rule3(S) == [lit |-> S \o <<"(">>, group |-> FALSE]

\* The token whose rules are the k-th triple of rules applied.
AppliedToken(k) == SubSeq(applied[3 * k].lit, 1, Len(applied[3 * k].lit) - 1)

\* Rule 1, then rule 2 on its output, then rule 3 on the output of rule 2, for
\* the symbols from the n-th on.
RECURSIVE RepairInOrder(_, _)
RepairInOrder(text, n) ==
    IF 3 * n > Len(applied) THEN text
    ELSE LET S == AppliedToken(n)
             one == sub(Rule1(S), [lit |-> S, g1 |-> TRUE], text)
             two == sub(Rule2(S), [lit |-> S, g1 |-> FALSE], one)
             three == sub(Rule3(S), [lit |-> S \o <<"*", "(">>, g1 |-> FALSE], two)
         IN  RepairInOrder(three, n + 1)

\* C14: the rules the repair applies come in triples, one triple per symbol:
\* the symbol split by a parenthesis, the symbol split by `*`, the call of the
\* symbol last; and the repaired text is what these rules give when each acts
\* on the output of the one before.
C14_RuleOrder ==
    (Loaded /\ DeclaresSympy /\ ~Failed(forms)) =>
        /\ Len(applied) = 3 * Len(LOCALS)
        /\ \A k \in 1..Len(LOCALS) :
               LET S == AppliedToken(k)
               IN  /\ applied[3 * k - 2] = Rule1(S)
                   /\ applied[3 * k - 1] = Rule2(S)
                   /\ applied[3 * k] = Rule3(S)
        /\ forms["sympy"] = RepairInOrder(Normalized, 1)

\* `J*a(`: rule 2 joins the symbol and rule 3, coming after it, sees the call.
C14_Witness ==
    /\ pc = "loaded" /\ DeclaresSympy
    /\ eq["sympy"] = <<"J","*","a","(">>
    /\ forms["sympy"] = <<"J","a","*","(">>
    /\ Len(applied) = 3 * Len(LOCALS)

----------------------------------------------------------------------------
(* Properties of the external tool's runs *)

\* C16: convert runs the tool once and never again for the same equation; a
\* non-zero exit status raises an error holding the captured stderr and
\* returns nothing; a zero exit status returns the stripped stdout with the
\* replacements applied: `Ja\n` gives `Ja`, ` Fo_{o}\n` gives `Fo_0`.
C16_ToolFailure ==
    \A k \in 1..Len(calls) :
        LET n == calls[k].eq
        IN  /\ \A j \in 1..Len(calls) : j # k => calls[j].eq # n
            /\ calls[k].returncode # 0 =>
                   /\ error = [error |-> calls[k].stderr]
                   /\ symbolic[n] = None
            /\ calls[k].returncode = 0 =>
                   /\ "text" \in DOMAIN symbolic[n]
                   /\ calls[k].stdout = <<"J","a","\n">> =>
                          symbolic[n].text = <<"J","a">>
                   /\ calls[k].stdout = <<" ","F","o","_","{","o","}","\n">> =>
                          symbolic[n].text = <<"F","o","_","0">>

C16_Witness ==
    /\ Len(calls) = 2
    /\ calls[1].returncode = 0 /\ symbolic[calls[1].eq] = [text |-> <<"F","o","_","0">>]
    /\ calls[2].returncode # 0 /\ error = [error |-> <<"b","a","d">>]

\* Number of runs of the tool for the n-th equation.
CallsFor(n) == Cardinality({k \in 1..Len(calls) : calls[k].eq = n})

\* C17 as stated: the tool is never run for an equation with an empty latex
\* form or a non-empty sympy form; when default is over it has been run exactly
\* once for every other equation, in the order of the table, and the module
\* has been written exactly once.
C17_ConverterGuard ==
    /\ \A k \in 1..Len(calls) : Eligible(calls[k].eq)
    /\ \A j, k \in 1..Len(calls) : j < k => calls[j].eq < calls[k].eq
    /\ pc \in {"written", "raised"} =>
           /\ \A n \in 1..Len(equations) : Eligible(n) => CallsFor(n) = 1
           /\ writes = 1

\* C17 amended: the tool is never run for an equation with an empty latex form
\* or a non-empty sympy form; it is run exactly once, in the order of the
\* table, for every other equation the loop has handled; when no run fails the
\* module is written exactly once after the last equation, and when a run
\* fails the later equations are not handled and the module is not written.
C17_GuardAmended ==
    /\ \A k \in 1..Len(calls) : Eligible(calls[k].eq)
    /\ \A j, k \in 1..Len(calls) : j < k => calls[j].eq < calls[k].eq
    /\ pc \in {"loop", "written", "raised"} =>
           /\ \A n \in 1..idx : Eligible(n) => CallsFor(n) = 1
           /\ \A n \in (idx + 1)..Len(equations) :
                  CallsFor(n) = IF pc = "raised" /\ n = idx + 1 THEN 1 ELSE 0
    /\ pc = "written" => (writes = 1 /\ idx = Len(equations) /\ error = None)
    /\ pc # "written" => writes = 0

C17_Witness ==
    /\ pc = "written" /\ writes = 1
    /\ Len(equations) = 3 /\ Len(calls) = 2
    /\ Eligible(1) /\ ~Eligible(2) /\ Eligible(3)

----------------------------------------------------------------------------
(* Properties of the tests' calls *)

\* The canonical vector of the test that has called, its keywords given the
\* names the callable knows them by.
Canonical ==
    IF pc = "python_called"
    THEN [n \in DOMAIN SYMBOL_EXPECTATIONS |->
             <<SYMBOLS[SYMBOL_EXPECTATIONS[n][1]], SYMBOL_EXPECTATIONS[n][2]>>]
    ELSE IF pc = "sympy_called" THEN SYMBOL_EXPECTATIONS ELSE KWDS

\* C18: a test passes a callable the entries of its canonical vector whose
\* names are parameters of the callable, and no others: no keyword outside the
\* signature, every parameter the vector has, each with the vector's value.
C18_ArgumentRestriction ==
    pc \in {"python_called", "sympy_called", "equations_called"} =>
        /\ \A n \in DOMAIN kwds : kwds[n][1] \in signature
        /\ \A n \in DOMAIN kwds : kwds[n] \in Range(Canonical)
        /\ \A m, n \in DOMAIN kwds : m # n => kwds[m][1] # kwds[n][1]
        /\ \A n \in DOMAIN Canonical :
               Canonical[n][1] \in signature => Canonical[n] \in Range(kwds)

C18_Witness ==
    /\ pc = "python_called"
    /\ signature = {"bubble_fourier", "bubble_jakob", "extra"}
    /\ kwds = << <<"bubble_fourier", "linspace">>, <<"bubble_jakob", "1.0">> >>

----------------------------------------------------------------------------
(* Properties of the transformations' effects *)

\* C19: when replace, regex_replace, handle_form_whitespace, set_defaults or
\* set_param_forms has returned, the mapping the caller passed has the keys and
\* the values it had when it was passed, and the result is another object,
\* one that did not exist before the call.
C19_Purity ==
    pc = "returned" =>
        /\ heap[arg] = passed
        /\ ret # arg
        /\ ret \in DOMAIN heap /\ ret > 1

C19_Witness ==
    /\ pc = "returned" /\ callee.fn = "replace"
    /\ heap[arg] = passed
    /\ heap[ret] # heap[arg]

----------------------------------------------------------------------------
(* Properties of the load of several correlations *)

----------------------------------------------------------------------------
(* Properties of the validators *)

\* The context has a truthy instance of the type under the type's key.
HasContextValue ==
    /\ info # None
    /\ "symbols" \in DOMAIN info
    /\ info["symbols"].truthy
    /\ info["symbols"].type \in {"Symbols", "SubSymbols"}

\* C21: the validator calls f only with the instance of the type that the
\* context holds under the type's key; when the context is absent or empty,
\* when it has no truthy value under the key, or when that value is not an
\* instance of the type, it raises ValueError and f is not called.
C21_ContextGated ==
    pc = "validated" =>
        /\ HasContextValue => (f_calls = <<info["symbols"]>> /\ raised = None)
        /\ ~HasContextValue => (f_calls = <<>> /\ raised = ValueError)

C21_Witness ==
    /\ pc = "validated"
    /\ info # None /\ DOMAIN info = {"symbols", "other"}
    /\ info["symbols"] = [type |-> "Other", truthy |-> TRUE]
    /\ raised = ValueError /\ f_calls = <<>>

----------------------------------------------------------------------------
(* Properties of get_dataset *)

\* C23: a call of get_dataset made after a first call has created the
\* uncompressed copy, with the arguments of that first call, succeeds and
\* returns the VIDEO, ROI and HEADER the first call returned.
C23_CacheTransparent ==
    \A j, k \in 1..Len(ds_calls) :
        (/\ j < k
         /\ ~Failed(ds_calls[j].result)
         /\ ds_calls[k].args = ds_calls[j].args)
            => ds_calls[k].result = ds_calls[j].result

----------------------------------------------------------------------------
(* Properties of the kinds the repair leaves alone *)

\* A text with every whitespace character made a space.
Spaced(s) == [n \in DOMAIN s |-> IF s[n] \in Range(whitespace) THEN " " ELSE s[n]]

\* The form of kind k as declared, the empty text when it is not.
Declared(k) == IF k \in DOMAIN eq THEN eq[k] ELSE <<>>

\* C24: set_equation_forms returns the latex and python forms as the input
\* forms with their whitespace normalised, whatever the sympy form is, and
\* when the normalised sympy form is empty it applies no regex repair.
C24_OnlySympyRepaired ==
    Loaded =>
        /\ forms["latex"] = Spaced(Declared("latex"))
        /\ forms["python"] = Spaced(Declared("python"))
        /\ Spaced(Declared("sympy")) = <<>> => (applied = <<>> /\ forms["sympy"] = <<>>)

C24_Witness ==
    /\ pc = "loaded" /\ DeclaresSympy
    /\ forms["sympy"] # eq["sympy"] /\ applied # <<>>
    /\ "latex" \in DOMAIN eq /\ "\t" \in Range(eq["latex"])
    /\ forms["latex"] = <<BS,"J","a"," ","x">>


(***************************************************************************)
(* The viewer and the ROI editor                                           *)
(***************************************************************************)

\* C25: the event loop starts only once the body of the with-block is over,
\* with the views populated and the handlers of the editor connected when the
\* body ran to its end; it starts when the body raised too; the caller gets
\* control back only after the loop has exited, and the vertices edit_roi
\* returns are those of the ROI when the loop exited.
C25_EventOrdering ==
    pc \in {"open", "with", "finally", "events", "quit", "closed", "propagated",
            "reloaded"} =>
       /\ loop # "idle" => body \in {"done", "raised"}
       /\ (loop # "idle" /\ body = "done") =>
             /\ views_set
             /\ {"viewer_keys", "continue_button"} \subseteq handlers
             /\ viewer = "edit_roi" => {"roi_keys", "save_button"} \subseteq handlers
       /\ pc \in {"closed", "propagated", "reloaded"} =>
             /\ loop = "exited"
             /\ events # <<>>
             /\ events[Len(events)].quit
       /\ pc \in {"propagated", "reloaded"} /\ body = "raised" => Failed(outcome)
       /\ (pc \in {"closed", "reloaded"} /\ body = "done" /\ viewer = "edit_roi") =>
             outcome = [vertices |-> get_roi_vertices(events[Len(events)].roi)]

C25_Witness ==
    /\ pc = "propagated"
    /\ body = "raised"
    /\ loop = "exited"
    /\ events # <<>>

\* C26: in an ROI editor the file is written only by an S key press or a
\* click on Save ROI, and then holds the vertices of that moment; Escape, Q
\* and Enter quit and write nothing; an S key press never quits.
C26_SaveGated ==
    (pc \in {"events", "quit", "closed", "propagated", "reloaded"}
       /\ viewer = "edit_roi") =>
       \A n \in DOMAIN events :
          LET e == events[n] IN
          /\ e.wrote =>
                /\ e.ev \in {"S", "Save ROI"}
                /\ e.file # None_file
                /\ safe_load(e.file) = get_roi_vertices(e.roi)
          /\ (~e.wrote /\ n > 1) => e.file = events[n - 1].file
          /\ (~e.wrote /\ n = 1) => e.file \in {None_file, SavedFile}
          /\ e.ev \in {"Escape", "Q", "Enter"} => e.quit /\ ~e.wrote
          /\ e.ev = "S" => ~e.quit
          /\ (e.ev \in {"S", "Save ROI"} /\ body = "done") => e.wrote

C26_Witness ==
    /\ pc = "quit"
    /\ viewer = "edit_roi"
    /\ Len(events) = 3
    /\ events[1].ev = "drag"
    /\ events[2].ev = "S"
    /\ events[2].wrote
    /\ events[2].file # SavedFile
    /\ events[3].ev = "Escape"
    /\ events[3].quit
    /\ roi_file = events[2].file

Writes == {n \in DOMAIN events : events[n].wrote}

LastWrite == CHOOSE n \in Writes : \A m \in Writes : m <= n

\* C27: load_roi after save_roi returns the saved vertices, in their order and
\* as integers; with a file it returns what the file holds, and the shape
\* derived from the image extents is returned when there is no file.
C27_RoundTrip ==
    pc = "reloaded" =>
       /\ Writes # {} =>
             /\ loaded.vertices = get_roi_vertices(events[LastWrite].roi)
             /\ \A n \in DOMAIN loaded.vertices :
                   /\ loaded.vertices[n] \in Int \X Int
                   /\ loaded.vertices[n][1] * 2 \in {events[LastWrite].roi[n][1],
                                                      events[LastWrite].roi[n][1] + 1,
                                                      events[LastWrite].roi[n][1] - 1}
       /\ (Writes = {} /\ roi_file # None_file) =>
             loaded.vertices = << <<1, 1>>, <<-2, 10>> >>
       /\ roi_file = None_file =>
             /\ Writes = {}
             /\ roi_kind = "poly" =>
                   loaded.vertices = << <<0, 0>>, <<0, 2>>, <<3, 2>>, <<3, 0>> >>
             /\ roi_kind = "line" => loaded.vertices = << <<0, 0>>, <<3, 2>> >>

C27_Witness ==
    /\ pc = "reloaded"
    /\ Writes # {}
    /\ loaded.vertices = << <<0, 1>>, <<-2, 10>> >>

(***************************************************************************)
(* example_dataset                                                         *)
(***************************************************************************)

\* C28: when control has left the with-block of example_dataset, normally or
\* by an exception of the body, the dataset was written to the destination
\* exactly when save is true, the preview was shown exactly when preview is
\* true, the preview came before the save, and the exception of the body is
\* propagated after them.
C28_ExitActions ==
    pc = "example_left" =>
       /\ (dest_file # None) <=> save
       /\ save => dest_file = ds_open
       /\ (shown # <<>>) <=> preview
       /\ preview => shown = <<[original |-> "packed", updated |-> ds_open["VIDEO"]]>>
       /\ exit_log = (IF preview THEN <<"preview">> ELSE <<>>)
                        \o (IF save THEN <<"save">> ELSE <<>>)
       /\ (leaving = "propagated") <=> (block \in {"raise", "modify_raise"})
       /\ (leaving = "returned") <=> (block \in {"pass", "modify"})

C28_Witness ==
    /\ pc = "example_left"
    /\ block = "modify_raise"
    /\ preview
    /\ save
    /\ exit_log = <<"preview", "save">>
    /\ leaving = "propagated"

(***************************************************************************)
(* The subcooled-experiment stage                                          *)
(***************************************************************************)

\* C29: with the find_collapse notebook unmodified nothing is executed;
\* otherwise the thermal-data notebook has run to its end before any task is
\* submitted, one task is submitted per experiment time, and main returns
\* only when every submitted task is over, failed or not; a failed task
\* cancels no other task and does not make main raise.
C29_FanOut ==
    script = "__main__" =>
       /\ ~nb_modified => thermal = "" /\ submitted = <<>> /\ tasks = <<>>
       /\ submitted # <<>> => thermal = "done"
       /\ thermal \in {"running", "failed"} => submitted = <<>>
       /\ Len(tasks) = Len(submitted)
       /\ \A i \in DOMAIN submitted : submitted[i] = times[i]
       /\ pc = "stage_raised" => thermal = "failed"
       /\ (pc = "stage_returned" /\ nb_modified) =>
             /\ thermal = "done"
             /\ submitted = times
             /\ \A i \in DOMAIN tasks : tasks[i] \in {"ok", "failed"}
       /\ (\E i \in DOMAIN tasks : tasks[i] = "failed") => pc # "stage_raised"

C29_Witness ==
    /\ script = "__main__"
    /\ pc = "stage_returned"
    /\ Len(times) = 2
    /\ tasks = <<"failed", "ok">>

(***************************************************************************)
(* Conversion of the CINEs                                                 *)
(***************************************************************************)

Failures == SelectSeq(visits, LAMBDA v : v.did = "failed")

\* C30: convert.main visits the sources in sorted order, each once; a source
\* whose .nc file exists is skipped and a file that was there is never
\* rewritten; a failed conversion is logged and every later source is still
\* visited.
C30_Batch ==
    pc \in {"convert_loop", "convert_done"} =>
       /\ \A i, j \in DOMAIN visits :
             i < j => Less(visits[i].source, visits[j].source)
       /\ \A i \in DOMAIN visits : visits[i].source \in cines
       /\ pc = "convert_done" => {visits[i].source : i \in DOMAIN visits} = cines
       /\ \A s \in existing : large_sources[s] = OldFile
       /\ \A i \in DOMAIN visits :
             LET s == stem(visits[i].source)
                 before == {stem(visits[j].source) :
                               j \in {k \in 1..(i - 1) : visits[k].did = "converted"}}
             IN  visits[i].did = "skipped" <=> s \in existing \cup before
       /\ logged = [n \in DOMAIN Failures |-> stem(Failures[n].source)]

C30_Witness ==
    /\ pc = "convert_done"
    /\ Len(visits) = 3
    /\ visits[1].did = "failed"
    /\ visits[2].did = "skipped"
    /\ visits[3].did = "converted"
====
